---- MODULE Spec2Model ----
(***************************************************************************)
(* Model of my-favorites-plugin (src/index.js): the favorites store kept   *)
(* in extension_settings, the message icons, the favorites popup, the      *)
(* overview page and the prompts that suspend the popup handlers.          *)
(***************************************************************************)
EXTENDS Integers, Sequences, FiniteSets, TLC

\* ------------------------------------------------------------------------
\* Bounds of the model
\* ------------------------------------------------------------------------
\* number of further ids uuidv4 can make for a message while the store
\* holds an item with an earlier id for it
MaxUuidGen == 1

\* the number of messages of the long conversation
MaxItems == 23

\* the number of conversations of the long overview
MaxChats == 14

\* ------------------------------------------------------------------------
\* Program constants
\* ------------------------------------------------------------------------
itemsPerPagePopup == 10
itemsPerPagePluginPage == 20

\* ------------------------------------------------------------------------
\* JavaScript values
\* ------------------------------------------------------------------------
Undefined == [t |-> "undefined"]
Null == [t |-> "null"]
NaN == [t |-> "NaN"]
Num(n) == [t |-> "number", n |-> n]
Str(s) == [t |-> "string", s |-> s]
Bool(b) == [t |-> "boolean", b |-> b]

\* chat identifiers are strings; the two absent values of JavaScript
UndefinedId == "undefined"
NullId == "null"
FalsyId(c) == c \in {UndefinedId, NullId, ""}

\* ToBoolean
Truthy(v) ==
    CASE v.t = "number" -> v.n # 0
      [] v.t = "string" -> v.s # ""
      [] v.t = "boolean" -> v.b
      [] OTHER -> FALSE

\* the decimal digits
Digit(d) ==
    CASE d = 0 -> "0" [] d = 1 -> "1" [] d = 2 -> "2" [] d = 3 -> "3"
      [] d = 4 -> "4" [] d = 5 -> "5" [] d = 6 -> "6" [] d = 7 -> "7"
      [] d = 8 -> "8" [] d = 9 -> "9"

\* Number.prototype.toString for the integers
RECURSIVE NumToString(_)
NumToString(n) ==
    IF n < 0 THEN "-" \o NumToString(0 - n)
    ELSE IF n < 10 THEN Digit(n)
    ELSE NumToString(n \div 10) \o Digit(n % 10)

\* the numerals of the numbers of the model
Numerals == [n \in 0..(MaxItems + 1) |-> NumToString(n)]

\* String(v)
ToStr(v) ==
    CASE v.t = "number" -> NumToString(v.n)
      [] v.t = "string" -> v.s
      [] v.t = "boolean" -> IF v.b THEN "true" ELSE "false"
      [] OTHER -> v.t

\* parseInt(s, 10) for the strings of the model
parseInt(s) ==
    IF \E n \in DOMAIN Numerals : Numerals[n] = s
    THEN Num(CHOOSE n \in DOMAIN Numerals : Numerals[n] = s)
    ELSE NaN

\* a === b
StrictEq(a, b) ==
    /\ a.t = b.t
    /\ a.t # "NaN"
    /\ a = b

\* String.prototype.trim for the strings of the model
trim(s) ==
    CASE s = " x " -> "x" [] s = " " -> "" [] OTHER -> s

\* a variant of Ceil that rounds down, as Math.floor does
Ceil_floor(a, b) == a \div b

\* Math.ceil(a / b) for a >= 0, b > 0
Ceil(a, b) == (a + b - 1) \div b

Max(a, b) == IF a > b THEN a ELSE b
Min(a, b) == IF a < b THEN a ELSE b

\* a number below 100 in two digits
TwoDigits(i) == IF i < 10 THEN "0" \o NumToString(i) ELSE NumToString(i)

\* the names of the characters of the long overview: "Zoe01", "Zoe02", ...
ZoeNames == [k \in 1..(MaxChats + 1) |-> "Zoe" \o TwoDigits(k)] \o <<>>

\* String.prototype.localeCompare on the names of the model: the rank of a
\* name in the collation order
LocaleRank(s) ==
    CASE s = "Alice" -> 1 [] s = "Alicia" -> 2 [] s = "Chat c1" -> 3
      [] s = "Chat c2" -> 4 [] s = "Group g1" -> 5 [] s = "Team" -> 6
      [] s = "Unknown / Other" -> 7 [] s = "Zero" -> 8
      [] OTHER -> IF \E k \in DOMAIN ZoeNames : ZoeNames[k] = s
                  THEN 9 + (CHOOSE k \in DOMAIN ZoeNames : ZoeNames[k] = s)
                  ELSE 9

Range(s) == {s[i] : i \in 1..Len(s)}

\* Array.prototype.find: the first of the elements that satisfy the test,
\* given as matching in their order, else Undefined
Find(matching) ==
    IF matching = <<>> THEN Undefined ELSE matching[1]

\* Array.prototype.slice(start, end)
Slice(s, start, end) ==
    SubSeq(s, Max(start, 0) + 1, Min(end, Len(s)))

\* ------------------------------------------------------------------------
\* The host application (script.js, extensions.js, popup.js): what the
\* plugin reads through getCurrentChatId() and getContext()
\* ------------------------------------------------------------------------
ChatIds == {"c1", "c2"}

Message(id, name, isUser, sendDate) ==
    [id |-> id, name |-> name, is_user |-> isUser, is_system |-> FALSE,
     send_date |-> sendDate, mes |-> "text"]

Groups == <<[id |-> Str("g1"), name |-> "Team"]>>
Characters == <<[id |-> Num(1), name |-> "Alicia"]>>

\* a conversation as the host shows it: what getCurrentChatId() and
\* getContext() give for it, its messages, and whether the host renders a
\* block without a mesid attribute next to them
Scene(chatId, groupId, characterId, name2, messages, noMesid) ==
    [chatId |-> chatId, groupId |-> groupId, characterId |-> characterId,
     name2 |-> name2, messages |-> messages, noMesid |-> noMesid]

\* no conversation is open
NoScene == Scene(UndefinedId, Undefined, Undefined, "", <<>>, FALSE)

\* one private conversation with two messages, the later one sent first
WorldTwoMessages ==
    { NoScene,
      Scene("c1", Undefined, Num(1), "Alice",
            <<Message(Num(1), "You", TRUE, 30),
              Message(Num(2), "Alice", FALSE, 10)>>, FALSE) }

\* a private and a group conversation, each with a message of id 1
WorldTwoChats ==
    { NoScene,
      Scene("c1", Undefined, Num(1), "Alice",
            <<Message(Num(1), "You", TRUE, 30)>>, FALSE),
      Scene("c2", Str("g1"), Undefined, "",
            <<Message(Num(1), "Team", FALSE, 20)>>, FALSE) }

\* one conversation that the host shows with a numeric message id and a
\* block without mesid, with a string message id, as a group, and with the
\* character of id 0
WorldOneChat ==
    { NoScene,
      Scene("c1", Undefined, Num(1), "Alice",
            <<Message(Num(1), "You", TRUE, 30)>>, TRUE),
      Scene("c1", Undefined, Num(1), "Alice",
            <<Message(Str("1"), "You", TRUE, 30)>>, FALSE),
      Scene("c1", Str("g1"), Num(1), "Alice",
            <<Message(Num(1), "You", TRUE, 30)>>, TRUE),
      Scene("c1", Undefined, Num(0), "Zero",
            <<Message(Num(1), "You", TRUE, 30)>>, TRUE) }

HostWorlds == {WorldTwoMessages, WorldTwoChats, WorldOneChat}

\* a rendered message block (#chat .mes): its mesid attribute ("" when the
\* attribute is missing), whether it has an .extraMesButtons region, how
\* many favorite icons the region holds and whether the icon shows the
\* solid star
MesElement(mesid, hasButtons) ==
    [mesid |-> mesid, extraMesButtons |-> hasButtons, icons |-> 0,
     favorited |-> FALSE]

\* the message blocks the host renders for the conversation it shows
RECURSIVE RenderMessages(_)
RenderMessages(msgs) ==
    IF msgs = <<>> THEN <<>>
    ELSE <<MesElement(ToStr(Head(msgs).id), TRUE)>>
             \o RenderMessages(Tail(msgs))

HostDom(scene) ==
    RenderMessages(scene.messages)
        \o (IF scene.noMesid THEN <<MesElement("", TRUE)>> ELSE <<>>)

\* ------------------------------------------------------------------------
\* State
\* ------------------------------------------------------------------------
VARIABLES
    chats,                 \* extension_settings[pluginName].chats
    chatsKeys,             \* Object.keys(chats): the keys in insertion order
    favoritesPopup,        \* the Popup instance exists
    popupShown,            \* favoritesPopup.isShown()
    currentPopupChatId,
    currentPopupPage,
    currentPluginPagePage,
    popupDom,              \* what the popup shows
    settingsArea,          \* the overview mount point and what it shows
    chatDom,               \* the message blocks of #chat
    currentChatId,         \* getCurrentChatId()
    context,               \* getContext()
    hostScenes,            \* the conversations the host can show
    persisted,             \* chats at the last saveSettingsDebounced()
    pending,               \* the handler suspended in callGenericPopup
    last                   \* the handler that ran last and what it returned

vars == <<chats, chatsKeys, favoritesPopup, popupShown, currentPopupChatId,
          currentPopupPage, currentPluginPagePage, popupDom, settingsArea,
          chatDom, currentChatId, context, hostScenes, persisted, pending,
          last>>

hostVars == <<currentChatId, context, hostScenes>>

\* the state a handler works on, with what it did so far: the number of
\* saveSettingsDebounced() and alert() calls, and whether it replaced the
\* rows of the popup list
World ==
    [chats |-> chats, chatsKeys |-> chatsKeys,
     favoritesPopup |-> favoritesPopup, popupShown |-> popupShown,
     currentPopupChatId |-> currentPopupChatId,
     currentPopupPage |-> currentPopupPage,
     currentPluginPagePage |-> currentPluginPagePage,
     popupDom |-> popupDom, settingsArea |-> settingsArea,
     chatDom |-> chatDom, persisted |-> persisted, pending |-> pending,
     saves |-> 0, alerts |-> 0, listReplaced |-> FALSE, noUuid |-> FALSE,
     ret |-> Undefined]

\* the prompt slot when no handler is suspended
NoPrompt == [kind |-> "none"]

\* the ids of the favorites in the store
UsedUuids(cs) ==
    UNION {{cs[c].items[i].id : i \in 1..Len(cs[c].items)} : c \in DOMAIN cs}

\* uuidv4(): an id that no favorite has. Ids are opaque: the model names
\* an id after the conversation and the message it is made for, with a
\* count g that keeps it apart from the ids of the items the store holds
\* for that message. NoUuid when the ids of the model are used up.
NoUuid == [c |-> "", m |-> "", g |-> -1]

\* uuidv4 never makes an id again: the id of a favorite that has left the
\* store equals no id from then on
Stale(id) == [id EXCEPT !.g = -1]

uuidv4(w, chatId, messageId) ==
    LET free == {g \in 0..MaxUuidGen :
                   [c |-> chatId, m |-> messageId, g |-> g]
                      \notin UsedUuids(w.chats)}
    IN IF free = {} THEN NoUuid
       ELSE [c |-> chatId, m |-> messageId,
             g |-> CHOOSE g \in free : \A h \in free : g <= h]

\* saveSettingsDebounced()
saveSettingsDebounced(w) ==
    [w EXCEPT !.persisted = w.chats, !.saves = @ + 1]

\* alert(...)
alert(w) == [w EXCEPT !.alerts = @ + 1]

\* ------------------------------------------------------------------------
\* Core data functions
\* ------------------------------------------------------------------------
NoChatInfo == Null

getCurrentChatInfo ==
    LET chatId == currentChatId
    IN IF FalsyId(chatId) THEN NoChatInfo
       ELSE IF Truthy(context.groupId) THEN
              LET groupId == context.groupId
                  group == Find(SelectSeq(context.groups,
                                LAMBDA g : StrictEq(g.id, groupId)))
              IN [chatId |-> chatId, type |-> "group",
                  name |-> IF group # Undefined THEN group.name
                           ELSE "Group " \o ToStr(groupId),
                  characterId |-> Undefined, groupId |-> groupId]
       ELSE IF Truthy(context.characterId) THEN
              [chatId |-> chatId, type |-> "private",
               name |-> context.name2,
               characterId |-> context.characterId, groupId |-> Undefined]
       ELSE NoChatInfo

getChatMessageById(messageId) ==
    LET targetId == IF messageId.t = "string" THEN parseInt(messageId.s)
                    ELSE messageId
        msg == Find(SelectSeq(context.chat,
                              LAMBDA m : StrictEq(m.id, targetId)))
    IN IF msg = Undefined THEN Null ELSE msg

\* a variant of isFavorited that compares the ids as they come, without
\* String()
isFavorited_strict(cs, chatId, messageId) ==
    /\ chatId \in DOMAIN cs
    /\ \E i \in 1..Len(cs[chatId].items) :
          Str(cs[chatId].items[i].messageId) = messageId

isFavorited(cs, chatId, messageId) ==
    IF chatId \notin DOMAIN cs THEN FALSE
    ELSE LET stringMessageId == ToStr(messageId)
         IN \E i \in 1..Len(cs[chatId].items) :
               cs[chatId].items[i].messageId = stringMessageId

\* ------------------------------------------------------------------------
\* Rendering: the popup list and the overview page
\* ------------------------------------------------------------------------
\* a variant of StableSort that puts the later of two elements with the
\* same key first
StableSort_tiesReversed(s, key) ==
    LET n == Len(s)
        pos(i) == Cardinality({j \in 1..n :
                      \/ key[j] < key[i]
                      \/ key[j] = key[i] /\ j > i}) + 1
    IN [p \in 1..n |-> s[CHOOSE i \in 1..n : pos(i) = p]]

\* the elements of s in ascending order of their keys, key[i] that of
\* s[i], elements of equal keys in the order they have in s
SortedByKey(s, key) ==
    LET n == Len(s)
        pos(i) == Cardinality({j \in 1..n :
                      \/ key[j] < key[i]
                      \/ key[j] = key[i] /\ j < i}) + 1
    IN [p \in 1..n |-> s[CHOOSE i \in 1..n : pos(i) = p]] \o <<>>

\* Array.prototype.sort with a comparator on the keys, key[i] that of
\* s[i]: stable, ascending (s and key enumerated once, as tuples)
StableSort(s, key) == SortedByKey(s \o <<>>, key \o <<>>)

NoCount == -1

\* the markup openFavoritesPopup gives a new Popup
popupHtml ==
    [title |-> [name |-> "Favorites", count |-> NoCount],
     emptyState |-> TRUE, rows |-> <<>>, paginationShown |-> FALSE,
     indicator |-> <<1, 1>>, prevDisabled |-> FALSE,
     nextDisabled |-> FALSE, clearDisabled |-> FALSE]

ChatLabel(chatId) == "Chat " \o chatId

renderFavoriteItem(favItem, isCurrentChat) ==
    LET message == IF isCurrentChat
                   THEN getChatMessageById(Str(favItem.messageId))
                   ELSE Null
    IN [favId |-> favItem.id, msgId |-> favItem.messageId,
        sender |-> favItem.sender, role |-> favItem.role,
        timestamp |-> favItem.timestamp, note |-> favItem.note,
        preview |-> IF message # Null THEN "text"
                    ELSE IF isCurrentChat THEN "deleted"
                    ELSE "requires-switch"]

\* a variant of ClampPage that takes the page as it comes
ClampPage_none(page, totalPages) == page

\* updateFavoritesPopup, the page within bounds
ClampPage(page, totalPages) == Max(1, Min(page, totalPages))

updateFavoritesPopup(w, chatId, page) ==
    IF ~w.favoritesPopup THEN w
    ELSE
      LET w1 == [w EXCEPT !.currentPopupChatId = chatId,
                          !.currentPopupPage = page]
          hasChat == chatId \in DOMAIN w.chats
          isCurrentChat == currentChatId = chatId
          favItems == IF hasChat
                      THEN StableSort(w.chats[chatId].items,
                              [i \in 1..Len(w.chats[chatId].items) |->
                                 w.chats[chatId].items[i].timestamp])
                      ELSE <<>>
          totalItems == IF hasChat THEN w.chats[chatId].count ELSE 0
          title == IF hasChat
                   THEN [name |-> IF w.chats[chatId].name # ""
                                  THEN w.chats[chatId].name
                                  ELSE ChatLabel(chatId),
                         count |-> w.chats[chatId].count]
                   ELSE [name |-> ChatLabel(chatId), count |-> 0]
      IN IF totalItems = 0 THEN
           [w1 EXCEPT !.popupDom = [@ EXCEPT !.title = title,
                                             !.emptyState = TRUE,
                                             !.rows = <<>>,
                                             !.paginationShown = FALSE,
                                             !.clearDisabled = TRUE],
                      !.listReplaced = TRUE]
         ELSE
           LET totalPages == Ceil(totalItems, itemsPerPagePopup)
               pg == ClampPage(page, totalPages)
               startIndex == (pg - 1) * itemsPerPagePopup
               endIndex == startIndex + itemsPerPagePopup
               itemsToShow == Slice(favItems, startIndex, endIndex)
           IN [w1 EXCEPT
                 !.currentPopupPage = pg,
                 !.popupDom =
                     [title |-> title, emptyState |-> FALSE,
                      rows |-> [i \in 1..Len(itemsToShow) |->
                                  renderFavoriteItem(itemsToShow[i],
                                                     isCurrentChat)],
                      paginationShown |-> TRUE,
                      indicator |-> <<pg, totalPages>>,
                      prevDisabled |-> (pg = 1),
                      nextDisabled |-> (pg = totalPages),
                      clearDisabled |-> ~isCurrentChat],
                 !.listReplaced = TRUE]

\* the rows of the overview before grouping, in Object.keys order
PluginPageRows(cs, keys) ==
    [i \in 1..Len(keys) |->
       LET chatId == keys[i]
           chatData == cs[chatId]
           displayName == IF chatData.name # "" THEN chatData.name
                          ELSE ChatLabel(chatId)
           character == Find(SelectSeq(context.characters,
                             LAMBDA c : StrictEq(c.id, chatData.characterId)))
           group == Find(SelectSeq(context.groups,
                         LAMBDA g : StrictEq(g.id, chatData.groupId)))
       IN [idx |-> i, chatId |-> chatId, displayName |-> displayName,
           count |-> chatData.count,
           groupKey |->
             IF chatData.type = "private" /\ Truthy(chatData.characterId)
             THEN (IF character # Undefined THEN character.name
                   ELSE displayName)
             ELSE IF chatData.type = "group" /\ Truthy(chatData.groupId)
             THEN (IF group # Undefined THEN group.name ELSE displayName)
             ELSE "Unknown / Other"]] \o <<>>

RECURSIVE FlattenGroups(_, _)
FlattenGroups(groupKeys, rows) ==
    IF groupKeys = <<>> THEN <<>>
    ELSE LET groupKey == Head(groupKeys)
             members == SelectSeq(rows, LAMBDA r : r.groupKey = groupKey)
             sortedChats == StableSort(members,
                               [i \in 1..Len(members) |->
                                  LocaleRank(members[i].displayName)])
         IN <<[isGroupTitle |-> TRUE, title |-> groupKey]>>
              \o [i \in 1..Len(sortedChats) |->
                    [isGroupTitle |-> FALSE,
                     chatId |-> sortedChats[i].chatId,
                     displayName |-> sortedChats[i].displayName,
                     count |-> sortedChats[i].count]]
              \o FlattenGroups(Tail(groupKeys), rows)

\* a variant of PluginPageEntries that keeps the groups in the order of
\* their first conversation
PluginPageEntries_keysOrder(cs, keys) ==
    LET rows == PluginPageRows(cs, keys)
        firstOfGroup == SelectSeq(rows, LAMBDA r :
                           \A j \in 1..(r.idx - 1) :
                              rows[j].groupKey # r.groupKey)
        groupKeys == [i \in 1..Len(firstOfGroup) |-> firstOfGroup[i].groupKey]
    IN FlattenGroups(groupKeys, rows)

\* allEntries of renderPluginPage
PluginPageEntries(cs, keys) ==
    LET rows == PluginPageRows(cs, keys)
        firstOfGroup == SelectSeq(rows, LAMBDA r :
                           \A j \in 1..(r.idx - 1) :
                              rows[j].groupKey # r.groupKey)
        groupKeys == [i \in 1..Len(firstOfGroup) |-> firstOfGroup[i].groupKey]
        sortedGroupKeys == StableSort(groupKeys,
                              [i \in 1..Len(groupKeys) |->
                                 LocaleRank(groupKeys[i])])
    IN FlattenGroups(sortedGroupKeys, rows)

NoSettingsArea == [exists |-> FALSE]

renderPluginPage(w, page) ==
    IF ~w.settingsArea.exists THEN w
    ELSE IF Len(w.chatsKeys) = 0 THEN
      [w EXCEPT !.settingsArea =
          [exists |-> TRUE, emptyState |-> TRUE, entries |-> <<>>,
           indicator |-> <<1, 1>>, pagination |-> FALSE]]
    ELSE
      LET allEntries == PluginPageEntries(w.chats, w.chatsKeys)
          totalEntries == Len(allEntries)
          totalPages == Ceil(totalEntries, itemsPerPagePluginPage)
          pg == Max(1, Min(page, totalPages))
          startIndex == (pg - 1) * itemsPerPagePluginPage
          endIndex == startIndex + itemsPerPagePluginPage
      IN [w EXCEPT
            !.currentPluginPagePage = pg,
            !.settingsArea =
               [exists |-> TRUE, emptyState |-> FALSE,
                entries |-> Slice(allEntries, startIndex, endIndex),
                indicator |-> <<pg, totalPages>>,
                pagination |-> (totalPages > 1)]]

\* ------------------------------------------------------------------------
\* Core data functions that change the store
\* ------------------------------------------------------------------------
\* a variant of EnsureChatEntry that starts the entry afresh when it exists
EnsureChatEntry_overwrite(w, chatInfo) ==
    [w EXCEPT
       !.chats = (chatInfo.chatId :> [type |-> chatInfo.type,
                                      name |-> chatInfo.name,
                                      characterId |-> chatInfo.characterId,
                                      groupId |-> chatInfo.groupId,
                                      count |-> 0, items |-> <<>>]) @@ @,
       !.chatsKeys = IF chatInfo.chatId \in DOMAIN w.chats THEN @
                     ELSE Append(@, chatInfo.chatId)]

\* addFavorite, "Ensure chat entry exists": a new entry, or the entry
\* refreshed from chatInfo
EnsureChatEntry(w, chatInfo) ==
    LET chatId == chatInfo.chatId
    IN IF chatId \notin DOMAIN w.chats THEN
         [w EXCEPT
            !.chats = (chatId :> [type |-> chatInfo.type,
                                  name |-> chatInfo.name,
                                  characterId |-> chatInfo.characterId,
                                  groupId |-> chatInfo.groupId,
                                  count |-> 0, items |-> <<>>]) @@ @,
            !.chatsKeys = Append(@, chatId)]
       ELSE
         [w EXCEPT
            !.chats[chatId] =
               [@ EXCEPT !.name = chatInfo.name,
                         !.type = chatInfo.type,
                         !.characterId = IF Truthy(chatInfo.characterId)
                                         THEN chatInfo.characterId ELSE @,
                         !.groupId = IF Truthy(chatInfo.groupId)
                                     THEN chatInfo.groupId ELSE @]]

\* addFavorite, newItem
NewItem(uuid, message) ==
    [id |-> uuid,
     messageId |-> ToStr(message.id),
     sender |-> message.name,
     role |-> IF message.is_user THEN "user"
              ELSE IF message.is_system THEN "system" ELSE "character",
     timestamp |-> message.send_date,
     note |-> ""]

\* a variant of PushItem that leaves count as it was
PushItem_keepCount(chatData, newItem) ==
    [chatData EXCEPT !.items = Append(@, newItem)]

\* addFavorite, items.push(newItem) and the recalculation of count
PushItem(chatData, newItem) ==
    LET items == Append(chatData.items, newItem)
    IN [chatData EXCEPT !.items = items, !.count = Len(items)]

\* the popup is open for chatId
PopupOpenFor(w, chatId) ==
    w.favoritesPopup /\ w.popupShown /\ w.currentPopupChatId = chatId

\* a variant of addFavorite without the check for a message that is
\* favorited already
addFavorite_unguarded(w, chatInfo, message) ==
    IF chatInfo = Null \/ message = Null THEN w
    ELSE
      LET chatId == chatInfo.chatId
          UpdatePopup(w2) ==
            IF PopupOpenFor(w2, chatId)
            THEN updateFavoritesPopup(w2, chatId, w2.currentPopupPage)
            ELSE w2
          Push(w1, uuid) ==
            saveSettingsDebounced(
               [w1 EXCEPT !.chats[chatId] = PushItem(@, NewItem(uuid, message)),
                          !.noUuid = @ \/ uuid = NoUuid])
          AddTo(w1) ==
            renderPluginPage(
               UpdatePopup(Push(w1, uuidv4(w1, chatId, ToStr(message.id)))),
               1)
      IN AddTo(EnsureChatEntry(w, chatInfo))

addFavorite(w, chatInfo, message) ==
    IF chatInfo = Null \/ message = Null THEN w
    ELSE
      LET chatId == chatInfo.chatId
          UpdatePopup(w2) ==
            IF PopupOpenFor(w2, chatId)
            THEN updateFavoritesPopup(w2, chatId, w2.currentPopupPage)
            ELSE w2
          Push(w1, uuid) ==
            saveSettingsDebounced(
               [w1 EXCEPT !.chats[chatId] = PushItem(@, NewItem(uuid, message)),
                          !.noUuid = @ \/ uuid = NoUuid])
          AddTo(w1) ==
            IF isFavorited(w1.chats, chatId, message.id) THEN w1
            ELSE renderPluginPage(
                    UpdatePopup(Push(w1, uuidv4(w1, chatId,
                                                ToStr(message.id)))), 1)
      IN AddTo(EnsureChatEntry(w, chatInfo))

\* a variant of FilterOutFavorite with the test the wrong way round
FilterOutFavorite_inverted(items, favId) ==
    SelectSeq(items, LAMBDA item : item.id = favId)

\* removeFavoriteById, items.filter(item => item.id !== favId)
FilterOutFavorite(items, favId) ==
    SelectSeq(items, LAMBDA item : item.id # favId)

\* a variant of DeleteIfEmpty that keeps the entry
DeleteIfEmpty_keep(w, chatId) == w

\* removeFavoriteById, the entry after a removal: gone when it is empty.
\* The keys lose chatId with it.
DeleteIfEmpty(w, chatId) ==
    IF w.chats[chatId].count = 0 THEN
      [w EXCEPT
         !.chats = [c \in (DOMAIN w.chats) \ {chatId} |-> w.chats[c]],
         !.chatsKeys = SelectSeq(@, LAMBDA c : c # chatId)]
    ELSE w

\* removeFavoriteById, the page of the open popup after a removal
PageAfterRemoval(page, count) ==
    LET totalPages == Ceil(count, itemsPerPagePopup)
    IN IF page > totalPages /\ page > 1 THEN page - 1 ELSE page

\* a variant of removeFavoriteById that leaves the overview as it is
removeFavoriteById_noRender(w, chatId, favId) ==
    IF chatId \notin DOMAIN w.chats THEN [w EXCEPT !.ret = Bool(FALSE)]
    ELSE
      LET chatData == w.chats[chatId]
          initialLength == Len(chatData.items)
          items == FilterOutFavorite(chatData.items, favId)
          removed == Len(items) < initialLength
      IN IF removed THEN
           LET count == Len(items)
               UpdatePopup(w1) ==
                 IF PopupOpenFor(w1, chatId)
                 THEN updateFavoritesPopup(w1, chatId,
                         PageAfterRemoval(w1.currentPopupPage, count))
                 ELSE w1
           IN [UpdatePopup(saveSettingsDebounced(DeleteIfEmpty(
                     [w EXCEPT !.chats[chatId].items = items,
                               !.chats[chatId].count = count],
                     chatId)))
                 EXCEPT !.ret = Bool(TRUE)]
         ELSE
           [w EXCEPT !.chats[chatId].items = items, !.ret = Bool(FALSE)]

\* a variant of removeFavoriteById that reports a removal also when the
\* conversation holds no favorite of that id
removeFavoriteById_reportsTrue(w, chatId, favId) ==
    IF chatId \notin DOMAIN w.chats THEN [w EXCEPT !.ret = Bool(TRUE)]
    ELSE
      LET chatData == w.chats[chatId]
          initialLength == Len(chatData.items)
          items == FilterOutFavorite(chatData.items, favId)
          removed == Len(items) < initialLength
      IN IF removed THEN
           LET count == Len(items)
               UpdatePopup(w1) ==
                 IF PopupOpenFor(w1, chatId)
                 THEN updateFavoritesPopup(w1, chatId,
                         PageAfterRemoval(w1.currentPopupPage, count))
                 ELSE w1
           IN [renderPluginPage(
                  UpdatePopup(saveSettingsDebounced(DeleteIfEmpty(
                     [w EXCEPT !.chats[chatId].items = items,
                               !.chats[chatId].count = count],
                     chatId))), 1)
                 EXCEPT !.ret = Bool(TRUE)]
         ELSE
           [w EXCEPT !.chats[chatId].items = items, !.ret = Bool(TRUE)]

removeFavoriteById(w, chatId, favId) ==
    IF chatId \notin DOMAIN w.chats THEN [w EXCEPT !.ret = Bool(FALSE)]
    ELSE
      LET chatData == w.chats[chatId]
          initialLength == Len(chatData.items)
          items == FilterOutFavorite(chatData.items, favId)
          removed == Len(items) < initialLength
      IN IF removed THEN
           LET count == Len(items)
               UpdatePopup(w1) ==
                 IF PopupOpenFor(w1, chatId)
                 THEN updateFavoritesPopup(w1, chatId,
                         PageAfterRemoval(w1.currentPopupPage, count))
                 ELSE w1
           IN [renderPluginPage(
                  UpdatePopup(saveSettingsDebounced(DeleteIfEmpty(
                     [w EXCEPT !.chats[chatId].items = items,
                               !.chats[chatId].count = count],
                     chatId))), 1)
                 EXCEPT !.ret = Bool(TRUE)]
         ELSE
           [w EXCEPT !.chats[chatId].items = items, !.ret = Bool(FALSE)]

\* a variant of removeFavoriteByMessageId that compares the ids as they
\* come, without String()
removeFavoriteByMessageId_strict(w, chatId, messageId) ==
    IF chatId \notin DOMAIN w.chats THEN [w EXCEPT !.ret = Bool(FALSE)]
    ELSE
      LET favItem == Find(SelectSeq(w.chats[chatId].items,
                          LAMBDA item : Str(item.messageId) = messageId))
      IN IF favItem # Undefined
         THEN removeFavoriteById(w, chatId, favItem.id)
         ELSE [w EXCEPT !.ret = Bool(FALSE)]

removeFavoriteByMessageId(w, chatId, messageId) ==
    IF chatId \notin DOMAIN w.chats THEN [w EXCEPT !.ret = Bool(FALSE)]
    ELSE
      LET stringMessageId == ToStr(messageId)
          favItem == Find(SelectSeq(w.chats[chatId].items,
                          LAMBDA item : item.messageId = stringMessageId))
      IN IF favItem # Undefined
         THEN removeFavoriteById(w, chatId, favItem.id)
         ELSE [w EXCEPT !.ret = Bool(FALSE)]

\* ------------------------------------------------------------------------
\* Message icons
\* ------------------------------------------------------------------------
\* a variant of updateFavoriteIconState that shows the solid star whatever
\* it is asked to show
updateFavoriteIconState_solid(dom, e, isFav) ==
    IF dom[e].icons > 0 THEN [dom EXCEPT ![e].favorited = TRUE] ELSE dom

\* updateFavoriteIconState on the message block at position e
updateFavoriteIconState(dom, e, isFav) ==
    IF dom[e].icons > 0 THEN [dom EXCEPT ![e].favorited = isFav] ELSE dom

\* a variant of InjectOrUpdateOne that adds an icon whether or not the
\* block has one
InjectOrUpdateOne_again(cs, chatId, el) ==
    LET injected == IF el.extraMesButtons
                    THEN [el EXCEPT !.icons = @ + 1] ELSE el
    IN IF injected.extraMesButtons /\ injected.icons > 0
          /\ injected.mesid # ""
       THEN [injected EXCEPT
               !.favorited = isFavorited(cs, chatId, Str(injected.mesid))]
       ELSE injected

\* the body of the loop of injectOrUpdateFavoriteIcons for one message block
InjectOrUpdateOne(cs, chatId, el) ==
    LET injected == IF el.extraMesButtons /\ el.icons = 0
                    THEN [el EXCEPT !.icons = 1, !.favorited = FALSE]
                    ELSE el
    IN IF injected.extraMesButtons /\ injected.icons > 0
          /\ injected.mesid # ""
       THEN [injected EXCEPT
               !.favorited = isFavorited(cs, chatId, Str(injected.mesid))]
       ELSE injected

injectOrUpdateFavoriteIcons(w) ==
    LET chatInfo == getCurrentChatInfo
    IN IF chatInfo = Null THEN w
       ELSE [w EXCEPT !.chatDom =
               [e \in 1..Len(w.chatDom) |->
                  InjectOrUpdateOne(w.chats, chatInfo.chatId, w.chatDom[e])]]

\* ------------------------------------------------------------------------
\* Event handlers
\* ------------------------------------------------------------------------
\* a variant of handleFavoriteToggle that flips the icon before it looks
\* for the message id and the conversation
handleFavoriteToggle_eager(w, e) ==
    LET messageId == w.chatDom[e].mesid
        chatInfo == getCurrentChatInfo
        isCurrentlyFavorited == w.chatDom[e].favorited
        w1 == [w EXCEPT !.chatDom =
                 updateFavoriteIconState(@, e, ~isCurrentlyFavorited)]
    IN IF messageId = "" \/ chatInfo = Null THEN alert(w1)
       ELSE IF ~isCurrentlyFavorited THEN
              LET message == getChatMessageById(Str(messageId))
              IN IF message # Null THEN addFavorite(w1, chatInfo, message)
                 ELSE [alert(w1) EXCEPT !.chatDom =
                         updateFavoriteIconState(@, e, FALSE)]
       ELSE [removeFavoriteByMessageId(w1, chatInfo.chatId, Str(messageId))
               EXCEPT !.ret = Undefined]

\* click on the favorite icon of the message block at position e
handleFavoriteToggle(w, e) ==
    LET messageId == w.chatDom[e].mesid
        chatInfo == getCurrentChatInfo
    IN IF messageId = "" \/ chatInfo = Null THEN alert(w)
       ELSE
         LET chatId == chatInfo.chatId
             isCurrentlyFavorited == w.chatDom[e].favorited
             w1 == [w EXCEPT !.chatDom =
                      updateFavoriteIconState(@, e, ~isCurrentlyFavorited)]
         IN IF ~isCurrentlyFavorited THEN
              LET message == getChatMessageById(Str(messageId))
              IN IF message # Null THEN addFavorite(w1, chatInfo, message)
                 ELSE [alert(w1) EXCEPT !.chatDom =
                         updateFavoriteIconState(@, e, FALSE)]
            ELSE
              [removeFavoriteByMessageId(w1, chatId, Str(messageId))
                 EXCEPT !.ret = Undefined]

\* a variant of openFavoritesPopup that opens the popup on the page it was
\* on
openFavoritesPopup_keepPage(w) ==
    LET chatInfo == getCurrentChatInfo
    IN IF chatInfo = Null THEN alert(w)
       ELSE
         LET chatId == chatInfo.chatId
             w1 == [w EXCEPT !.currentPopupChatId = chatId]
             w2 == IF ~w1.favoritesPopup
                   THEN [w1 EXCEPT !.favoritesPopup = TRUE,
                                   !.popupDom = popupHtml]
                   ELSE w1
         IN [updateFavoritesPopup(w2, chatId, w2.currentPopupPage)
               EXCEPT !.popupShown = TRUE]

openFavoritesPopup(w) ==
    LET chatInfo == getCurrentChatInfo
    IN IF chatInfo = Null THEN alert(w)
       ELSE
         LET chatId == chatInfo.chatId
             w1 == [w EXCEPT !.currentPopupChatId = chatId,
                             !.currentPopupPage = 1]
             w2 == IF ~w1.favoritesPopup
                   THEN [w1 EXCEPT !.favoritesPopup = TRUE,
                                   !.popupDom = popupHtml]
                   ELSE w1
         IN [updateFavoritesPopup(w2, chatId, w2.currentPopupPage)
               EXCEPT !.popupShown = TRUE]

\* click on "prev" or "next" of the popup
handlePopupPagination(w, direction) ==
    IF ~w.favoritesPopup \/ FalsyId(w.currentPopupChatId) THEN w
    ELSE IF w.currentPopupChatId \notin DOMAIN w.chats THEN w
    ELSE
      LET chatData == w.chats[w.currentPopupChatId]
          totalPages == Ceil(chatData.count, itemsPerPagePopup)
          page == IF direction = "prev" /\ w.currentPopupPage > 1
                  THEN w.currentPopupPage - 1
                  ELSE IF direction = "next"
                          /\ w.currentPopupPage < totalPages
                  THEN w.currentPopupPage + 1
                  ELSE w.currentPopupPage
      IN updateFavoritesPopup(w, w.currentPopupChatId, page)

\* jQuery .data(): an attribute that reads as a number comes back as one
jqData(attr) ==
    IF ToStr(parseInt(attr)) = attr THEN parseInt(attr) ELSE Str(attr)

\* a handler suspended in callGenericPopup, with what it holds on to. The
\* prompt covers the popup whose buttons open the prompts, so one prompt is
\* open at a time.
Prompt(kind, chatId, favId, msgId, invalidFavIds) ==
    [kind |-> kind, chatId |-> chatId, favId |-> favId, msgId |-> msgId,
     invalidFavIds |-> invalidFavIds, detached |-> FALSE]

FindFavorite(cs, chatId, favId) ==
    IF chatId \notin DOMAIN cs THEN Undefined
    ELSE Find(SelectSeq(cs[chatId].items, LAMBDA item : item.id = favId))

\* handleEditNote up to the prompt: the prompt opens for the row when the
\* favorite is found
EditNoteOpens(w, row) ==
    /\ ~FalsyId(w.currentPopupChatId)
    /\ FindFavorite(w.chats, w.currentPopupChatId, row.favId) # Undefined

\* a variant of NoteResultGiven that takes an empty text for no result
NoteResultGiven_truthy(result) == Truthy(result)

\* handleEditNote, the test of the result of the prompt
NoteResultGiven(result) == result # Null /\ result # Undefined

\* handleEditNote after the prompt. favItem is the object found before the
\* prompt: the store changes only if it still holds that object. The row
\* is the element found before the prompt: the popup shows the change only
\* if the list was not rendered again.
handleEditNoteResume(w, p, result) ==
    IF ~NoteResultGiven(result) THEN w
    ELSE IF result.t # "string" THEN w
    ELSE
      LET note == trim(result.s)
          inStore == FindFavorite(w.chats, p.chatId, p.favId) # Undefined
          w1 == IF inStore
                THEN [w EXCEPT !.chats[p.chatId].items =
                        [i \in 1..Len(@) |->
                           IF @[i].id = p.favId
                           THEN [@[i] EXCEPT !.note = note] ELSE @[i]]]
                ELSE w
          w2 == saveSettingsDebounced(w1)
          w3 == IF p.detached THEN w2
                ELSE [w2 EXCEPT !.popupDom.rows =
                        [i \in 1..Len(@) |->
                           IF @[i].favId = p.favId
                           THEN [@[i] EXCEPT !.note = note] ELSE @[i]]]
      IN renderPluginPage(w3, 1)

\* a variant of Confirmed that takes every answer but null for a yes
Confirmed_notNull(confirmation) == confirmation # Null

\* if (confirmation)
Confirmed(confirmation) == Truthy(confirmation)

\* handleDeleteFavoriteFromPopup after the prompt
handleDeleteFavoriteResume(w, p, confirmation) ==
    IF ~Confirmed(confirmation) THEN w
    ELSE
      LET selector == ToStr(p.msgId)
          AfterRemoval(w1) ==
            LET removed == w1.ret = Bool(TRUE)
            IN IF removed /\ currentChatId = p.chatId
               THEN [w1 EXCEPT !.chatDom =
                       [e \in 1..Len(@) |->
                          IF @[e].mesid = selector /\ @[e].icons > 0
                          THEN [@[e] EXCEPT !.favorited = FALSE] ELSE @[e]]]
               ELSE w1
      IN AfterRemoval(removeFavoriteById(w, p.chatId, p.favId))

\* handleClearInvalidFavorites: the favorites whose message is not in the
\* live conversation
InvalidFavIds(items) ==
    LET currentMessageIds == {ToStr(context.chat[i].id) :
                                 i \in 1..Len(context.chat)}
        invalid == SelectSeq(items, LAMBDA favItem :
                       favItem.messageId \notin currentMessageIds)
    IN [i \in 1..Len(invalid) |-> invalid[i].id]

\* a variant of ClearInvalidOutcome that does not ask which conversation
\* the host shows
ClearInvalidOutcome_anyChat(w) ==
    LET chatId == w.currentPopupChatId
    IN IF FalsyId(chatId) THEN "alert"
       ELSE IF chatId \notin DOMAIN w.chats THEN "alert"
       ELSE IF Len(w.chats[chatId].items) = 0 THEN "alert"
       ELSE IF Len(InvalidFavIds(w.chats[chatId].items)) = 0 THEN "alert"
       ELSE "prompt"

\* handleClearInvalidFavorites up to the prompt: "alert" when it gives up
\* with an alert, "prompt" when it asks for confirmation
ClearInvalidOutcome(w) ==
    LET chatId == w.currentPopupChatId
    IN IF FalsyId(chatId) \/ currentChatId # chatId THEN "alert"
       ELSE IF chatId \notin DOMAIN w.chats THEN "alert"
       ELSE IF Len(w.chats[chatId].items) = 0 THEN "alert"
       ELSE IF Len(InvalidFavIds(w.chats[chatId].items)) = 0 THEN "alert"
       ELSE "prompt"

\* a variant of ClearLoop that stops after the first id
ClearLoop_first(w, chatId, favIds, removedCount) ==
    IF favIds = <<>> THEN [w EXCEPT !.ret = Num(removedCount)]
    ELSE LET Rest(w1) ==
               [w1 EXCEPT !.ret = Num(IF w1.ret = Bool(TRUE)
                                      THEN removedCount + 1
                                      ELSE removedCount)]
         IN Rest(removeFavoriteById(w, chatId, Head(favIds)))

\* the forEach of handleClearInvalidFavorites: removes each id in turn and
\* counts the removals
RECURSIVE ClearLoop(_, _, _, _)
ClearLoop(w, chatId, favIds, removedCount) ==
    IF favIds = <<>> THEN [w EXCEPT !.ret = Num(removedCount)]
    ELSE LET Rest(w1) ==
               ClearLoop(w1, chatId, Tail(favIds),
                         IF w1.ret = Bool(TRUE) THEN removedCount + 1
                         ELSE removedCount)
         IN Rest(removeFavoriteById(w, chatId, Head(favIds)))

\* handleClearInvalidFavorites after the prompt; ret is the number of
\* removals it reports
handleClearInvalidResume(w, p, confirmation) ==
    IF ~Confirmed(confirmation) THEN w
    ELSE
      LET AfterLoop(w1) ==
            LET removedCount == w1.ret.n
            IN IF removedCount > 0
               THEN [updateFavoritesPopup(alert(w1), p.chatId,
                                          w1.currentPopupPage)
                       EXCEPT !.ret = Num(removedCount)]
               ELSE alert(w1)
      IN AfterLoop(ClearLoop(w, p.chatId, p.invalidFavIds, 0))

\* handlePluginPagePagination, the group a conversation is counted under
GroupKeyForPaging(chatData) ==
    IF chatData.type = "private" /\ Truthy(chatData.characterId)
    THEN chatData.name
    ELSE IF chatData.type = "group" /\ Truthy(chatData.groupId)
    THEN chatData.name
    ELSE "Unknown / Other"

\* handlePluginPagePagination, entryCountForPaging: one for each group
\* and one for each conversation
EntryCountForPaging(cs, keys) ==
    Cardinality({GroupKeyForPaging(cs[keys[i]]) : i \in 1..Len(keys)})
       + Len(keys)

\* click on "prev" or "next" of the overview
handlePluginPagePagination(w, direction) ==
    IF Len(w.chatsKeys) = 0 THEN w
    ELSE
      LET totalPages == Ceil(EntryCountForPaging(w.chats, w.chatsKeys),
                             itemsPerPagePluginPage)
          page == IF direction = "prev" /\ w.currentPluginPagePage > 1
                  THEN w.currentPluginPagePage - 1
                  ELSE IF direction = "next"
                          /\ w.currentPluginPagePage < totalPages
                  THEN w.currentPluginPagePage + 1
                  ELSE w.currentPluginPagePage
      IN renderPluginPage([w EXCEPT !.currentPluginPagePage = page], page)

\* click on the row of chat clickedChatId in the overview
handlePluginPageChatClick(w, clickedChatId) ==
    LET w1 == [w EXCEPT !.currentPopupChatId = clickedChatId,
                        !.currentPopupPage = 1]
    IN IF ~w1.favoritesPopup THEN openFavoritesPopup(w1)
       ELSE [updateFavoritesPopup(w1, clickedChatId, w1.currentPopupPage)
               EXCEPT !.popupShown = TRUE]

\* ------------------------------------------------------------------------
\* Initial state: the plugin has loaded, no conversation is open, the
\* settings root is empty (initializeSettings)
\* ------------------------------------------------------------------------
EmptyChats == [c \in {} |-> Null]

SceneContext(scene) ==
    [groupId |-> scene.groupId, characterId |-> scene.characterId,
     name2 |-> scene.name2, groups |-> Groups, characters |-> Characters,
     chat |-> scene.messages]

EmptySettingsArea ==
    [exists |-> TRUE, emptyState |-> TRUE, entries |-> <<>>,
     indicator |-> <<1, 1>>, pagination |-> FALSE]

Init ==
    /\ chats = EmptyChats
    /\ chatsKeys = <<>>
    /\ favoritesPopup = FALSE
    /\ popupShown = FALSE
    /\ currentPopupChatId = NullId
    /\ currentPopupPage = 1
    /\ currentPluginPagePage = 1
    /\ popupDom = Null
    /\ settingsArea = EmptySettingsArea
    /\ chatDom = <<>>
    /\ currentChatId = NoScene.chatId
    /\ context = SceneContext(NoScene)
    /\ hostScenes \in HostWorlds
    /\ persisted = EmptyChats
    /\ pending = NoPrompt
    /\ last = [op |-> "init", arg |-> Undefined, ret |-> Undefined,
               saves |-> 0, alerts |-> 0]

\* ------------------------------------------------------------------------
\* Actions
\* ------------------------------------------------------------------------
\* a prompt that holds a row of the popup list loses it when the list is
\* rendered again
MarkDetached(pend, listReplaced) ==
    IF pend = NoPrompt THEN pend
    ELSE IF "outer" \in DOMAIN pend
    THEN [pend EXCEPT !.detached = @ \/ listReplaced,
                      !.outer.detached = @ \/ listReplaced]
    ELSE [pend EXCEPT !.detached = @ \/ listReplaced]

\* the ids a suspended handler holds on to, once their favorites have left
\* the store
ForgetOne(pend, cs) ==
    [pend EXCEPT
       !.favId = IF @ \in UsedUuids(cs) THEN @ ELSE Stale(@),
       !.invalidFavIds =
          [i \in 1..Len(@) |->
             IF @[i] \in UsedUuids(cs) THEN @[i] ELSE Stale(@[i])]]

\* the same for the prompt that is open and for the one it was opened over
Forget(pend, cs) ==
    IF pend = NoPrompt THEN pend
    ELSE IF "outer" \in DOMAIN pend
    THEN [ForgetOne(pend, cs) EXCEPT !.outer = ForgetOne(@, cs)]
    ELSE ForgetOne(pend, cs)

RemoveAt(s, k) == SubSeq(s, 1, k - 1) \o SubSeq(s, k + 1, Len(s))

\* the handler has run to its end or to its prompt: w is the state it
\* leaves, pend the prompt that is open now, arg what the click or the call
\* was made on. A hidden popup shows nothing,
\* and whatever shows it again renders it first, so its content is kept
\* only while it is shown.
Commit(w, op, arg, pend) ==
    /\ ~w.noUuid
    /\ chats' = w.chats
    /\ chatsKeys' = w.chatsKeys
    /\ favoritesPopup' = w.favoritesPopup
    /\ popupShown' = w.popupShown
    /\ currentPopupChatId' = w.currentPopupChatId
    /\ currentPopupPage' = w.currentPopupPage
    /\ currentPluginPagePage' = w.currentPluginPagePage
    /\ popupDom' = IF w.favoritesPopup /\ ~w.popupShown THEN popupHtml
                   ELSE w.popupDom
    /\ settingsArea' = w.settingsArea
    /\ chatDom' = w.chatDom
    /\ persisted' = w.persisted
    /\ pending' = Forget(MarkDetached(pend, w.listReplaced), w.chats)
    /\ last' = [op |-> op, arg |-> arg, ret |-> w.ret, saves |-> w.saves,
                alerts |-> w.alerts]
    /\ UNCHANGED hostVars

\* the user clicks the star of a message
ClickFavoriteIcon(e) ==
    /\ e \in 1..Len(chatDom)
    /\ chatDom[e].icons > 0
    /\ Commit(handleFavoriteToggle(World, e), "handleFavoriteToggle",
              chatDom[e].mesid, pending)

\* the user clicks the sidebar button; arg is what the popup was bound to
\* when the click came
ClickSidebarButton ==
    Commit(openFavoritesPopup(World), "openFavoritesPopup",
           <<currentPopupChatId, currentPopupPage>>, pending)

\* the user closes the popup
ClickPopupClose ==
    /\ favoritesPopup /\ popupShown
    /\ Commit([World EXCEPT !.popupShown = FALSE], "close", Undefined,
              pending)

\* the user clicks the pencil of row i of the popup list
ClickEditNote(i) ==
    /\ favoritesPopup /\ popupShown
    /\ i \in 1..Len(popupDom.rows)
    /\ pending = NoPrompt
    /\ LET row == popupDom.rows[i]
       IN Commit(World, "handleEditNote", Undefined,
                 IF EditNoteOpens(World, row)
                 THEN Prompt("note", currentPopupChatId, row.favId,
                             jqData(row.msgId), <<>>)
                 ELSE pending)

\* the user clicks the trash of row i of the popup list
ClickDeleteFavorite(i) ==
    /\ favoritesPopup /\ popupShown
    /\ i \in 1..Len(popupDom.rows)
    /\ pending = NoPrompt
    /\ LET row == popupDom.rows[i]
       IN Commit(World, "handleDeleteFavoriteFromPopup", Undefined,
                 IF ~FalsyId(currentPopupChatId)
                 THEN Prompt("delete", currentPopupChatId, row.favId,
                             jqData(row.msgId), <<>>)
                 ELSE pending)

\* the user clicks "Clear Invalid", which is possible while the button is
\* enabled
ClickClearInvalid ==
    /\ favoritesPopup /\ popupShown
    /\ ~popupDom.clearDisabled
    /\ pending = NoPrompt
    /\ IF ClearInvalidOutcome(World) = "alert"
       THEN Commit(alert(World), "handleClearInvalidFavorites", Undefined,
                   pending)
       ELSE Commit(World, "handleClearInvalidFavorites", Undefined,
                   Prompt("clear", currentPopupChatId, NoUuid, Undefined,
                          InvalidFavIds(chats[currentPopupChatId].items)))

\* what callGenericPopup resolves to: the text of an input prompt, or
\* null when it is cancelled, false when it is declined; true or false
\* for a confirmation
PromptResults(kind) ==
    IF kind = "note" THEN {Str(""), Str(" x "), Null, Bool(FALSE)}
    ELSE {Bool(TRUE), Bool(FALSE), Null}

\* the user answers the open prompt and its handler runs to the end
ResolvePrompt(result) ==
    /\ pending # NoPrompt
    /\ "outer" \notin DOMAIN pending
    /\ result \in PromptResults(pending.kind)
    /\ LET p == pending
           rest == NoPrompt
       IN CASE p.kind = "note" ->
                 Commit(handleEditNoteResume(World, p, result),
                        IF result \in {Null, Bool(FALSE)}
                        THEN "handleEditNote:cancel"
                        ELSE "handleEditNote:commit", result, rest)
            [] p.kind = "delete" ->
                 Commit(handleDeleteFavoriteResume(World, p, result),
                        IF Truthy(result)
                        THEN "handleDeleteFavoriteFromPopup:confirm"
                        ELSE "handleDeleteFavoriteFromPopup:cancel", result, rest)
            [] p.kind = "clear" ->
                 Commit(handleClearInvalidResume(World, p, result),
                        IF Truthy(result)
                        THEN "handleClearInvalidFavorites:confirm"
                        ELSE "handleClearInvalidFavorites:cancel", result, rest)

\* a prompt opened while the prompt under is open
Over(prompt, under) == prompt @@ [outer |-> under]

\* the user clicks the trash of row i of the popup list while a prompt for
\* a note or for a removal is open
ClickDeleteFavoriteOver(i) ==
    /\ favoritesPopup /\ popupShown
    /\ i \in 1..Len(popupDom.rows)
    /\ pending # NoPrompt /\ "outer" \notin DOMAIN pending
    /\ pending.kind \in {"note", "delete"}
    /\ ~FalsyId(currentPopupChatId)
    /\ LET row == popupDom.rows[i]
       IN Commit(World, "handleDeleteFavoriteFromPopup", Undefined,
                 Over(Prompt("delete", currentPopupChatId, row.favId,
                             jqData(row.msgId), <<>>), pending))

\* the user clicks "Clear Invalid" while a prompt for a note or for a
\* removal is open
ClickClearInvalidOver ==
    /\ favoritesPopup /\ popupShown
    /\ ~popupDom.clearDisabled
    /\ pending # NoPrompt /\ "outer" \notin DOMAIN pending
    /\ pending.kind \in {"note", "delete"}
    /\ ClearInvalidOutcome(World) = "prompt"
    /\ Commit(World, "handleClearInvalidFavorites", Undefined,
              Over(Prompt("clear", currentPopupChatId, NoUuid, Undefined,
                          InvalidFavIds(chats[currentPopupChatId].items)),
                   pending))

\* the user answers the prompt that was opened over another one; its
\* handler runs to the end and the other prompt is the open one again
ResolvePromptOver(result) ==
    /\ pending # NoPrompt /\ "outer" \in DOMAIN pending
    /\ result \in PromptResults(pending.kind)
    /\ LET p == pending
           rest == pending.outer
       IN CASE p.kind = "delete" ->
                 Commit(handleDeleteFavoriteResume(World, p, result),
                        IF Truthy(result)
                        THEN "handleDeleteFavoriteFromPopup:confirm"
                        ELSE "handleDeleteFavoriteFromPopup:cancel", result, rest)
            [] p.kind = "clear" ->
                 Commit(handleClearInvalidResume(World, p, result),
                        IF Truthy(result)
                        THEN "handleClearInvalidFavorites:confirm"
                        ELSE "handleClearInvalidFavorites:cancel", result, rest)

\* the user clicks a conversation row of the overview
ClickPluginPageChat(j) ==
    /\ settingsArea.exists
    /\ j \in 1..Len(settingsArea.entries)
    /\ ~settingsArea.entries[j].isGroupTitle
    /\ Commit(handlePluginPageChatClick(World,
                                        settingsArea.entries[j].chatId),
              "handlePluginPageChatClick", settingsArea.entries[j].chatId,
              pending)

\* the host emits CHAT_UPDATED or CHARACTER_LOADED
ChatUpdated ==
    Commit(injectOrUpdateFavoriteIcons(World),
           "injectOrUpdateFavoriteIcons", Undefined, pending)

HostStep ==
    /\ UNCHANGED <<chats, chatsKeys, favoritesPopup, popupShown,
                   currentPopupChatId, currentPopupPage,
                   currentPluginPagePage, popupDom, settingsArea,
                   persisted, pending>>
    /\ last' = [op |-> "host", arg |-> Undefined, ret |-> Undefined,
                saves |-> 0, alerts |-> 0]

\* the host shows another conversation, or the same one anew or with
\* another context; it renders the message blocks unless the conversation
\* and its messages stay as they are
HostSwitchChat(scene) ==
    /\ scene \in hostScenes
    /\ currentChatId' = scene.chatId
    /\ context' = SceneContext(scene)
    /\ chatDom' = IF scene.chatId = currentChatId
                     /\ scene.messages = context.chat
                  THEN chatDom ELSE HostDom(scene)
    /\ UNCHANGED hostScenes
    /\ HostStep

\* the host deletes the k-th message of the open conversation
HostDeleteMessage(k) ==
    /\ k \in 1..Len(context.chat)
    /\ context' = [context EXCEPT !.chat = RemoveAt(@, k)]
    /\ chatDom' = SelectSeq(chatDom, LAMBDA el :
                     el.mesid # ToStr(context.chat[k].id))
    /\ UNCHANGED <<currentChatId, hostScenes>>
    /\ HostStep

Next ==
    \/ \E e \in 1..Len(chatDom) : ClickFavoriteIcon(e)
    \/ ClickSidebarButton
    \/ ClickPopupClose
    \/ \E i \in 1..itemsPerPagePopup : ClickEditNote(i)
    \/ \E i \in 1..itemsPerPagePopup : ClickDeleteFavorite(i)
    \/ ClickClearInvalid
    \/ \E result \in PromptResults("note") \cup PromptResults("delete") :
           ResolvePrompt(result)
    \/ \E j \in 1..itemsPerPagePluginPage : ClickPluginPageChat(j)
    \/ ChatUpdated
    \/ \E scene \in hostScenes : HostSwitchChat(scene)
    \/ \E k \in 1..Len(context.chat) : HostDeleteMessage(k)

Spec == Init /\ [][Next]_vars

\* ------------------------------------------------------------------------
\* Prompts over prompts: the host lets a prompt open while another one is
\* open, and the one opened last is answered first. One conversation with
\* two messages.
\* ------------------------------------------------------------------------
InitOver ==
    /\ Init
    /\ hostScenes = WorldTwoMessages

NextOver ==
    \/ \E e \in 1..Len(chatDom) : ClickFavoriteIcon(e)
    \/ ClickSidebarButton
    \/ \E i \in 1..itemsPerPagePopup : ClickEditNote(i)
    \/ \E i \in 1..itemsPerPagePopup : ClickDeleteFavorite(i)
    \/ \E i \in 1..itemsPerPagePopup : ClickDeleteFavoriteOver(i)
    \/ ClickClearInvalidOver
    \/ \E result \in PromptResults("note") \cup PromptResults("delete") :
           ResolvePrompt(result)
    \/ \E result \in PromptResults("delete") : ResolvePromptOver(result)
    \/ ChatUpdated
    \/ \E scene \in hostScenes : HostSwitchChat(scene)
    \/ \E k \in 1..Len(context.chat) : HostDeleteMessage(k)

SpecOver == InitOver /\ [][NextOver]_vars

\* ------------------------------------------------------------------------
\* The core data functions called on their own, as the handlers call them
\* but whatever the icons show, while the host changes the conversation
\* and the user opens and closes the popup
\* ------------------------------------------------------------------------
\* the ids a favorite can have
Uuids ==
    {[c |-> c, m |-> m, g |-> g] :
        c \in ChatIds, m \in {"1", "2"}, g \in 0..MaxUuidGen}

\* the message ids the functions are called with, numbers and strings
MessageIds == {Num(1), Num(2), Str("1"), Str("2")}

\* addFavorite(getCurrentChatInfo(), message) for a message of the live
\* conversation, or for no message
CallAddFavorite(message) ==
    /\ message \in Range(context.chat) \cup {Null}
    /\ Commit(addFavorite(World, getCurrentChatInfo, message),
              "addFavorite", message, pending)

CallRemoveFavoriteById(chatId, favId) ==
    Commit(removeFavoriteById(World, chatId, favId),
           "removeFavoriteById", <<chatId, favId>>, pending)

CallRemoveFavoriteByMessageId(chatId, messageId) ==
    Commit(removeFavoriteByMessageId(World, chatId, messageId),
           "removeFavoriteByMessageId", <<chatId, messageId>>, pending)

\* one conversation with two messages that the host shows as a private
\* conversation and as a group conversation
WorldRetyped ==
    { NoScene,
      Scene("c1", Undefined, Num(1), "Alice",
            <<Message(Num(1), "You", TRUE, 30),
              Message(Num(2), "Alice", FALSE, 10)>>, FALSE),
      Scene("c1", Str("g1"), Undefined, "",
            <<Message(Num(1), "You", TRUE, 30),
              Message(Num(2), "Alice", FALSE, 10)>>, FALSE) }

\* the state after construction, with one more choice of conversations
InitCalls ==
    /\ chats = EmptyChats
    /\ chatsKeys = <<>>
    /\ favoritesPopup = FALSE
    /\ popupShown = FALSE
    /\ currentPopupChatId = NullId
    /\ currentPopupPage = 1
    /\ currentPluginPagePage = 1
    /\ popupDom = Null
    /\ settingsArea = EmptySettingsArea
    /\ chatDom = <<>>
    /\ currentChatId = NoScene.chatId
    /\ context = SceneContext(NoScene)
    /\ hostScenes \in HostWorlds \cup {WorldRetyped}
    /\ persisted = EmptyChats
    /\ pending = NoPrompt
    /\ last = [op |-> "init", arg |-> Undefined, ret |-> Undefined,
               saves |-> 0, alerts |-> 0]

NextCalls ==
    \/ ClickSidebarButton
    \/ ClickPopupClose
    \/ \E j \in 1..itemsPerPagePluginPage : ClickPluginPageChat(j)
    \/ \E scene \in hostScenes : HostSwitchChat(scene)
    \/ \E message \in Range(context.chat) \cup {Null} :
           CallAddFavorite(message)
    \/ \E chatId \in ChatIds, favId \in Uuids :
           CallRemoveFavoriteById(chatId, favId)
    \/ \E chatId \in ChatIds, messageId \in MessageIds :
           CallRemoveFavoriteByMessageId(chatId, messageId)

SpecCalls == InitCalls /\ [][NextCalls]_vars

\* ------------------------------------------------------------------------
\* The popup of a long conversation: the first messages of the
\* conversation were favorited, in the order of the messages, and the
\* settings were saved. The user opens and closes the popup and toggles
\* the star of the newest message, the host shows one conversation or the
\* other; the paging functions are called with the popup on screen.
\* ------------------------------------------------------------------------
\* the messages of the long conversation: the newest one is the latest,
\* the send dates of the others neither follow the order of the messages
\* nor differ for all of them
ManyMessages ==
    [i \in 1..MaxItems |->
       Message(Num(i), IF i % 2 = 1 THEN "You" ELSE "Alice", i % 2 = 1,
               IF i = MaxItems THEN 10 ELSE (i * 7) % 10)]

LongScene == Scene("c1", Undefined, Num(1), "Alice", ManyMessages, FALSE)

\* the long conversation and a group conversation without messages
WorldLongChat ==
    { LongScene,
      Scene("c2", Str("g1"), Undefined, "", <<>>, FALSE) }

\* the settings root after addFavorite for each of the first n messages
LongChats(n) ==
    IF n = 0 THEN EmptyChats
    ELSE "c1" :> [type |-> "private", name |-> "Alice",
                  characterId |-> Num(1), groupId |-> Undefined,
                  count |-> n,
                  items |-> [i \in 1..n |->
                               NewItem([c |-> "c1", m |-> NumToString(i),
                                        g |-> 0], ManyMessages[i])]]

InitPages ==
    /\ hostScenes = WorldLongChat
    /\ currentChatId = LongScene.chatId
    /\ context = SceneContext(LongScene)
    /\ \E n \in 0..(MaxItems - 1) : chats = LongChats(n)
    /\ chatsKeys = IF chats = EmptyChats THEN <<>> ELSE <<"c1">>
    /\ persisted = chats
    /\ favoritesPopup = FALSE
    /\ popupShown = FALSE
    /\ currentPopupChatId = NullId
    /\ currentPopupPage = 1
    /\ currentPluginPagePage = 1
    /\ popupDom = Null
    /\ settingsArea =
          renderPluginPage([chats |-> chats, chatsKeys |-> chatsKeys,
                            settingsArea |-> EmptySettingsArea,
                            currentPluginPagePage |-> 1], 1).settingsArea
    /\ chatDom = [e \in 1..MaxItems |->
                    InjectOrUpdateOne(chats, "c1", HostDom(LongScene)[e])]
    /\ pending = NoPrompt
    /\ last = [op |-> "init", arg |-> Undefined, ret |-> Undefined,
               saves |-> 0, alerts |-> 0]

\* the pages updateFavoritesPopup is asked for: from below the first to
\* beyond the last
PageArgs == (0 - 1)..(Ceil(MaxItems, itemsPerPagePopup) + 1)

\* updateFavoritesPopup(currentPopupChatId, page) with the popup on screen
\* for a conversation that has favorites
CallUpdateFavoritesPopup(page) ==
    /\ favoritesPopup /\ popupShown
    /\ currentPopupChatId \in DOMAIN chats
    /\ Commit(updateFavoritesPopup(World, currentPopupChatId, page),
              "updateFavoritesPopup", page, pending)

\* handlePopupPagination for a click on "prev" or "next", whether the
\* button is enabled or not; arg is the direction and the page the popup
\* was on
CallHandlePopupPagination(direction) ==
    /\ favoritesPopup /\ popupShown
    /\ Commit(handlePopupPagination(World, direction),
              "handlePopupPagination", <<direction, currentPopupPage>>,
              pending)

\* the user clicks the star of the newest message
ToggleNewest ==
    ClickFavoriteIcon(Len(chatDom))

NextPages ==
    \/ ClickSidebarButton
    \/ ClickPopupClose
    \/ ToggleNewest
    \/ \E scene \in hostScenes : HostSwitchChat(scene)
    \/ ChatUpdated
    \/ \E page \in PageArgs : CallUpdateFavoritesPopup(page)
    \/ \E direction \in {"prev", "next"} :
           CallHandlePopupPagination(direction)

SpecPages == InitPages /\ [][NextPages]_vars

\* ------------------------------------------------------------------------
\* The overview of many conversations: each of the first n characters has
\* one conversation with one favorite, and the settings were saved. The
\* characters were renamed since, or not. No conversation is open; the
\* user pages through the overview and clicks its rows, and
\* renderPluginPage is called for a page.
\* ------------------------------------------------------------------------
\* the conversation of character i
OverviewChatId(i) == "k" \o TwoDigits(i)

\* how the names in the store relate to the names in the roster: the
\* same; one name in the store for characters that have names of their
\* own by now; names of their own in the store for characters that have
\* one name by now
\* one name by now, or share a name by now two by two
NameSchemes == {"same", "storedShared", "rosterShared", "rosterPaired"}

\* the later a character has chatted, the earlier its name sorts
NameIndex(i) == MaxChats + 1 - i

StoredName(scheme, i) ==
    IF scheme = "storedShared" THEN ZoeNames[1]
    ELSE ZoeNames[NameIndex(i)]

RosterName(scheme, i) ==
    IF scheme = "rosterShared" THEN ZoeNames[1]
    ELSE IF scheme = "rosterPaired" THEN ZoeNames[NameIndex((i + 1) \div 2)]
    ELSE ZoeNames[NameIndex(i)]

\* the settings root after addFavorite for the message of each of the
\* first n conversations
OverviewChats(scheme, n) ==
    [c \in {OverviewChatId(i) : i \in 1..n} |->
       LET i == CHOOSE k \in 1..n : OverviewChatId(k) = c
       IN [type |-> "private", name |-> StoredName(scheme, i),
           characterId |-> Num(i), groupId |-> Undefined, count |-> 1,
           items |-> <<NewItem([c |-> c, m |-> "1", g |-> 0],
                               Message(Num(1), "You", TRUE, 30))>>]]

InitOverview ==
    /\ hostScenes = {NoScene}
    /\ currentChatId = NoScene.chatId
    /\ \E scheme \in NameSchemes, n \in 1..MaxChats :
          /\ context = [SceneContext(NoScene) EXCEPT !.characters =
                          [i \in 1..n |-> [id |-> Num(i),
                                           name |-> RosterName(scheme, i)]]]
          /\ chats = OverviewChats(scheme, n)
          /\ chatsKeys = [i \in 1..n |-> OverviewChatId(i)]
    /\ persisted = chats
    /\ favoritesPopup = FALSE
    /\ popupShown = FALSE
    /\ currentPopupChatId = NullId
    /\ currentPopupPage = 1
    /\ currentPluginPagePage = 1
    /\ popupDom = Null
    /\ settingsArea =
          renderPluginPage([chats |-> chats, chatsKeys |-> chatsKeys,
                            settingsArea |-> EmptySettingsArea,
                            currentPluginPagePage |-> 1], 1).settingsArea
    /\ chatDom = <<>>
    /\ pending = NoPrompt
    /\ last = [op |-> "init", arg |-> Undefined, ret |-> Undefined,
               saves |-> 0, alerts |-> 0]

\* the user clicks "prev" or "next" of the overview, which is possible
\* while the button is rendered and enabled; arg is the direction and the
\* page the overview was on
ClickPluginPagePagination(direction) ==
    /\ settingsArea.exists /\ settingsArea.pagination
    /\ \/ direction = "prev" /\ settingsArea.indicator[1] # 1
       \/ /\ direction = "next"
          /\ settingsArea.indicator[1] # settingsArea.indicator[2]
    /\ Commit(handlePluginPagePagination(World, direction),
              "handlePluginPagePagination",
              <<direction, currentPluginPagePage>>, pending)

\* the pages renderPluginPage is asked for
OverviewPageArgs == 0..(Ceil(2 * MaxChats, itemsPerPagePluginPage) + 1)

\* renderPluginPage(page)
CallRenderPluginPage(page) ==
    /\ page \in OverviewPageArgs
    /\ Commit(renderPluginPage(World, page), "renderPluginPage", page, pending)

NextOverview ==
    \/ \E direction \in {"prev", "next"} :
           ClickPluginPagePagination(direction)
    \/ \E j \in 1..itemsPerPagePluginPage : ClickPluginPageChat(j)
    \/ \E page \in OverviewPageArgs : CallRenderPluginPage(page)

SpecOverview == InitOverview /\ [][NextOverview]_vars

\* ------------------------------------------------------------------------
\* Properties
\* ------------------------------------------------------------------------
\* C1: whatever the user and the host have done since the empty settings
\* root, the count of every conversation entry is the number of its items.
C1_CountIsItemsLength ==
    \A c \in DOMAIN chats : chats[c].count = Len(chats[c].items)

\* a favorite was deleted from the popup and another one of the
\* conversation remains, after two were added
C1_Witness ==
    /\ last.op = "handleDeleteFavoriteFromPopup:confirm"
    /\ last.ret = Bool(TRUE)
    /\ \E c \in DOMAIN chats : chats[c].count = 1

\* no two items of the conversation cs[c] have the same messageId
NoTwoItemsOfMessage(cs, c) ==
    \A i, j \in 1..Len(cs[c].items) :
       cs[c].items[i].messageId = cs[c].items[j].messageId => i = j

\* C2: every step of the core functions called in any order leaves every
\* conversation without two items of the same messageId, and addFavorite
\* for a message of the conversation that is favorited already leaves the
\* items of the conversation as many as they were.
C2_OneItemPerMessage ==
    [][/\ \A c \in DOMAIN chats' : NoTwoItemsOfMessage(chats', c)
       /\ \A message \in Range(context.chat) :
             (/\ getCurrentChatInfo # NoChatInfo
              /\ isFavorited(chats, currentChatId, message.id)
              /\ CallAddFavorite(message))
             => Len(chats'[currentChatId].items)
                  = Len(chats[currentChatId].items)]_vars

\* addFavorite was called for a message of a conversation whose two
\* messages are both favorited
C2_Witness ==
    /\ last.op = "addFavorite"
    /\ last.arg # Null
    /\ last.saves = 0
    /\ currentChatId \in DOMAIN chats
    /\ Len(chats[currentChatId].items) = 2
    /\ isFavorited(chats, currentChatId, last.arg.id)

\* C3: no conversation entry of the settings root has an empty items
\* collection once a handler has run to its end.
C3_NoEmptyEntry ==
    \A c \in DOMAIN chats : Len(chats[c].items) > 0

\* "Clear Invalid" has removed the only favorite of the conversation and
\* its entry is gone
C3_Witness ==
    /\ last.op = "handleClearInvalidFavorites:confirm"
    /\ last.ret = Num(1)
    /\ currentChatId \notin DOMAIN chats

\* the items and the count of conversation c in the store cs, none and 0
\* when it has no entry
ItemsOf(cs, c) == IF c \in DOMAIN cs THEN cs[c].items ELSE <<>>

CountOf(cs, c) == IF c \in DOMAIN cs THEN cs[c].count ELSE 0

\* the store, the popup and the overview are as they were, and nothing
\* asked for persistence
NothingChanged ==
    /\ UNCHANGED <<chats, chatsKeys, persisted, favoritesPopup, popupShown,
                   currentPopupChatId, currentPopupPage, popupDom,
                   currentPluginPagePage, settingsArea>>
    /\ last'.saves = 0

\* C4: addFavorite for the current conversation, with or without an entry
\* in the store, and a message of it that is not favorited makes the count
\* of the conversation one more than it was (0 without an entry), makes
\* the message favorited, and appends to the items one whose messageId is
\* String(message.id) and whose note is "".
C4_AddFavoriteAppendsOne ==
    [][\A message \in Range(context.chat) :
         (/\ getCurrentChatInfo # NoChatInfo
          /\ ~isFavorited(chats, currentChatId, message.id)
          /\ CallAddFavorite(message))
         => LET C == currentChatId
                before == ItemsOf(chats, C)
            IN /\ C \in DOMAIN chats'
               /\ chats'[C].count = CountOf(chats, C) + 1
               /\ isFavorited(chats', C, message.id)
               /\ Len(chats'[C].items) = Len(before) + 1
               /\ SubSeq(chats'[C].items, 1, Len(before)) = before
               /\ chats'[C].items[Len(before) + 1].messageId
                    = ToStr(message.id)
               /\ chats'[C].items[Len(before) + 1].note = ""]_vars

\* addFavorite has added a second favorite to a conversation
C4_Witness ==
    /\ last.op = "addFavorite"
    /\ last.saves = 1
    /\ currentChatId \in DOMAIN chats
    /\ chats[currentChatId].count = 2
    /\ isFavorited(chats, currentChatId, last.arg.id)

\* C5: addFavorite for the current conversation and a message of it that
\* is favorited already leaves the count and the items of the conversation
\* exactly as they were.
C5_AddFavoriteIdempotent ==
    [][\A message \in Range(context.chat) :
         (/\ getCurrentChatInfo # NoChatInfo
          /\ isFavorited(chats, currentChatId, message.id)
          /\ CallAddFavorite(message))
         => /\ currentChatId \in DOMAIN chats'
            /\ chats'[currentChatId].count = chats[currentChatId].count
            /\ chats'[currentChatId].items
                 = chats[currentChatId].items]_vars

\* addFavorite was called for a favorited message and asked for no
\* persistence
C5_Witness ==
    /\ last.op = "addFavorite"
    /\ last.arg # Null
    /\ last.saves = 0
    /\ getCurrentChatInfo # NoChatInfo
    /\ isFavorited(chats, currentChatId, last.arg.id)
    /\ chats[currentChatId].count = 1

\* what the popup shows when it is rendered for conversation c of store cs
PopupRenderFor(cs, c) ==
    updateFavoritesPopup([World EXCEPT !.chats = cs,
                                       !.favoritesPopup = TRUE,
                                       !.popupDom = popupHtml], c, 1).popupDom

\* C6: when the only favorite of a conversation is removed, by
\* removeFavoriteById with its id or by removeFavoriteByMessageId with its
\* message id as a number or as a string, the conversation has no entry in
\* the store any more, isFavorited is false for it and every message id,
\* and the popup rendered for it, as the popup that is open for it, shows
\* the empty state and the count 0.
C6_RemovingLastDeletesEntry ==
    [][\A c \in ChatIds :
         (/\ c \in DOMAIN chats
          /\ Len(chats[c].items) = 1
          /\ \/ CallRemoveFavoriteById(c, chats[c].items[1].id)
             \/ \E m \in MessageIds :
                   /\ ToStr(m) = chats[c].items[1].messageId
                   /\ CallRemoveFavoriteByMessageId(c, m))
         => /\ c \notin DOMAIN chats'
            /\ \A m \in MessageIds : ~isFavorited(chats', c, m)
            /\ PopupRenderFor(chats', c).emptyState
            /\ PopupRenderFor(chats', c).rows = <<>>
            /\ PopupRenderFor(chats', c).title.count = 0
            /\ PopupOpenFor(World, c)
                 => /\ popupDom'.emptyState
                    /\ popupDom'.rows = <<>>
                    /\ popupDom'.title.count = 0]_vars

\* the only favorite of the conversation the popup is open for was removed
C6_Witness ==
    /\ last.op \in {"removeFavoriteById", "removeFavoriteByMessageId"}
    /\ last.ret = Bool(TRUE)
    /\ last.arg[1] \notin DOMAIN chats
    /\ favoritesPopup /\ popupShown /\ currentPopupChatId = last.arg[1]
    /\ popupDom.emptyState

\* C7: removeFavoriteById(C, f) returns true exactly when C has an item of
\* id f, which is gone from C afterwards; otherwise it returns false and
\* changes nothing in the store, the popup or the overview and asks for no
\* persistence.
C7_RemoveByIdResult ==
    [][\A c \in ChatIds, f \in Uuids :
         CallRemoveFavoriteById(c, f)
         => LET existed == \E i \in 1..Len(ItemsOf(chats, c)) :
                              chats[c].items[i].id = f
            IN /\ last'.ret = Bool(existed)
               /\ ~existed => NothingChanged
               /\ existed
                    => /\ \A i \in 1..Len(ItemsOf(chats', c)) :
                             chats'[c].items[i].id # f
                       /\ Len(ItemsOf(chats', c)) = Len(chats[c].items) - 1
                       /\ last'.saves = 1]_vars

\* removeFavoriteById was called for a conversation of the store with an
\* id that no item of it has
C7_Witness ==
    /\ last.op = "removeFavoriteById"
    /\ last.ret = Bool(FALSE)
    /\ last.arg[1] \in DOMAIN chats
    /\ last.saves = 0

\* C8: removeFavoriteByMessageId(C, M) with no item of C whose messageId is
\* String(M) returns false and changes nothing; with such an item it
\* returns true, the items of C are the ones it had without that item, in
\* their order, and every other conversation keeps its entry as it was.
C8_RemoveByMessageIdFrame ==
    [][\A c \in ChatIds, m \in MessageIds :
         CallRemoveFavoriteByMessageId(c, m)
         => LET before == ItemsOf(chats, c)
                hits == {i \in 1..Len(before) :
                           before[i].messageId = ToStr(m)}
            IN /\ hits = {} => last'.ret = Bool(FALSE) /\ NothingChanged
               /\ hits # {}
                    => /\ last'.ret = Bool(TRUE)
                       /\ Cardinality(hits) = 1
                       /\ ItemsOf(chats', c)
                            = SelectSeq(before, LAMBDA item :
                                           item.messageId # ToStr(m))
                       /\ CountOf(chats', c) = Len(before) - 1
                       /\ \A d \in ChatIds \ {c} :
                             /\ d \in DOMAIN chats' <=> d \in DOMAIN chats
                             /\ d \in DOMAIN chats
                                  => chats'[d] = chats[d]]_vars

\* removeFavoriteByMessageId, called with the number of a message, has
\* removed one of the two favorites of a conversation
C8_Witness ==
    /\ last.op = "removeFavoriteByMessageId"
    /\ last.ret = Bool(TRUE)
    /\ last.arg[2].t = "number"
    /\ last.arg[1] \in DOMAIN chats
    /\ ~isFavorited(chats, last.arg[1], last.arg[2])

\* the message of the live conversation that getChatMessageById gives for
\* x has the string form of x as the string form of its id
LookupFinds(x) ==
    LET found == getChatMessageById(x)
    IN found # Null /\ ToStr(found.id) = ToStr(x)

\* C9: message ids are compared by their string forms, whether the host
\* has them as numbers or as strings: isFavorited answers the same for an
\* id and for its string form, and getChatMessageById finds every message
\* of the live conversation by its id and by the string form of its id.
C9_IdsComparedAsStrings ==
    /\ \A c \in DOMAIN chats, m \in MessageIds :
          isFavorited(chats, c, m) <=> isFavorited(chats, c, Str(ToStr(m)))
    /\ \A i \in 1..Len(context.chat) :
          /\ LookupFinds(context.chat[i].id)
          /\ LookupFinds(Str(ToStr(context.chat[i].id)))

\* C10: a click on the icon of a message block without a message id, or
\* while the current conversation cannot be told, ends in one alert; the
\* store, the icons and the rest of what the plugin shows are as they
\* were, and nothing asked for persistence.
C10_ToggleAbortsUnresolved ==
    [][\A e \in 1..Len(chatDom) :
         (/\ chatDom[e].mesid = "" \/ getCurrentChatInfo = NoChatInfo
          /\ ClickFavoriteIcon(e))
         => /\ last'.alerts = 1
            /\ chatDom' = chatDom
            /\ NothingChanged]_vars

\* the icon of a message with an id was clicked while the current
\* conversation could not be told
C10_Witness ==
    /\ last.op = "handleFavoriteToggle"
    /\ last.alerts = 1
    /\ last.arg # ""
    /\ getCurrentChatInfo = NoChatInfo

\* ------------------------------------------------------------------------
\* C11: a click on an icon that shows "not favorited", for a message block
\* with an id in a conversation that resolves, whose message
\* getChatMessageById does not find, leaves the settings root as it was,
\* requests no save, alerts once, and leaves the icon showing "not
\* favorited": the optimistic flip is taken back.
\* ------------------------------------------------------------------------
C11_ToggleRevertsWhenMessageMissing ==
    [][\A e \in 1..Len(chatDom) :
         (/\ chatDom[e].mesid # ""
          /\ chatDom[e].icons > 0
          /\ ~chatDom[e].favorited
          /\ getCurrentChatInfo # NoChatInfo
          /\ getChatMessageById(Str(chatDom[e].mesid)) = Null
          /\ ClickFavoriteIcon(e))
         => /\ chats' = chats
            /\ chatsKeys' = chatsKeys
            /\ persisted' = persisted
            /\ last'.saves = 0
            /\ last'.alerts = 1
            /\ ~chatDom'[e].favorited
            /\ chatDom' = chatDom]_vars

\* the click has happened: the handler alerted although the block has an
\* id and the conversation resolves, so the message was not found
C11_Witness ==
    /\ last.op = "handleFavoriteToggle"
    /\ last.arg # ""
    /\ last.alerts = 1
    /\ last.saves = 0
    /\ getCurrentChatInfo # NoChatInfo
    /\ \E e \in 1..Len(chatDom) :
          chatDom[e].mesid = last.arg /\ ~chatDom[e].favorited

\* ------------------------------------------------------------------------
\* C12: whenever the sidebar button is clicked while a conversation
\* resolves, the popup exists and is shown afterwards, bound to the
\* conversation the host shows and to page 1, whatever conversation and
\* page it was bound to before.
\* ------------------------------------------------------------------------
C12_OpenBindsCurrentChatPageOne ==
    [][(/\ last'.op = "openFavoritesPopup"
        /\ getCurrentChatInfo # NoChatInfo
        /\ ClickSidebarButton)
         => /\ favoritesPopup'
            /\ popupShown'
            /\ currentPopupChatId' = currentChatId
            /\ currentPopupPage' = 1
            /\ last'.alerts = 0]_vars

\* the sidebar button was clicked while the popup was bound to the third
\* page of another conversation, and the popup is shown for the
\* conversation the host shows, on page 1
C12_Witness ==
    /\ last.op = "openFavoritesPopup"
    /\ last.alerts = 0
    /\ last.arg[1] \notin {currentChatId, NullId}
    /\ last.arg[2] = 3
    /\ popupShown
    /\ currentPopupChatId = currentChatId
    /\ currentPopupPage = 1

PagesOf(n) == (n + 9) \div 10

\* the number of favorites of conversation c that come before its i-th
\* item when they are put in the order of their timestamps, those with
\* the same timestamp in the order they have in the store
RankOf(cs, c, i) ==
    Cardinality({j \in 1..Len(cs[c].items) :
        \/ cs[c].items[j].timestamp < cs[c].items[i].timestamp
        \/ /\ cs[c].items[j].timestamp = cs[c].items[i].timestamp
           /\ j < i})

\* the rows of the popup are the favorites of conversation c at the
\* positions first .. last - 1 (counted from 0) of that order
RowsArePositions(rows, cs, c, first, end) ==
    /\ Len(rows) = end - first
    /\ \A k \in 1..Len(rows) :
         \E i \in 1..Len(cs[c].items) :
            /\ cs[c].items[i].id = rows[k].favId
            /\ RankOf(cs, c, i) = first + k - 1

\* ------------------------------------------------------------------------
\* C14: for a conversation with n >= 1 favorites and any page p, also
\* p <= 0 and p beyond the last page, updateFavoritesPopup sets
\* currentPopupPage to min(max(p, 1), ceil(n / 10)) and renders exactly
\* the favorites at the sorted positions (page - 1) * 10 up to
\* min(page * 10, n) - 1.
\* ------------------------------------------------------------------------
C14_PageClampedAndSliced ==
    [][(/\ last'.op = "updateFavoritesPopup"
        /\ currentPopupChatId \in DOMAIN chats
        /\ chats[currentPopupChatId].count >= 1
        /\ CallUpdateFavoritesPopup(last'.arg))
         => LET n == chats[currentPopupChatId].count
                p == last'.arg
                page == IF p < 1 THEN 1
                        ELSE IF p > PagesOf(n) THEN PagesOf(n) ELSE p
            IN /\ currentPopupPage' = page
               /\ popupDom'.indicator = <<page, PagesOf(n)>>
               /\ RowsArePositions(popupDom'.rows, chats,
                                   currentPopupChatId, (page - 1) * 10,
                                   IF page * 10 < n THEN page * 10
                                   ELSE n)]_vars

\* updateFavoritesPopup was asked for page 4 of 23 favorites: the popup
\* is on page 3 of 3 and shows 3 rows
C14_Witness ==
    /\ last.op = "updateFavoritesPopup"
    /\ last.arg = 4
    /\ CountOf(chats, currentPopupChatId) = 23
    /\ currentPopupPage = 3
    /\ popupDom.indicator = <<3, 3>>
    /\ Len(popupDom.rows) = 3

\* the popup is on screen for a conversation that has favorites
PopupShowsFavorites ==
    /\ favoritesPopup /\ popupShown
    /\ currentPopupChatId \in DOMAIN chats
    /\ chats[currentPopupChatId].count >= 1

\* ------------------------------------------------------------------------
\* C15: in every state currentPopupPage is at least 1, and while the popup
\* is shown for a conversation with n >= 1 favorites it is at most
\* ceil(n / 10). "prev" on page 1 and "next" on the last page leave the
\* page as it is, and the removal of the only favorite of the last page
\* while the popup shows that page takes the popup to the page before.
\* ------------------------------------------------------------------------
C15_PageStaysInRange ==
    /\ [](currentPopupPage >= 1)
    /\ [](PopupShowsFavorites
            => currentPopupPage <= PagesOf(chats[currentPopupChatId].count))
    /\ [][(/\ last'.op = "handlePopupPagination"
           /\ PopupShowsFavorites
           /\ \/ last'.arg[1] = "prev" /\ currentPopupPage = 1
              \/ /\ last'.arg[1] = "next"
                 /\ currentPopupPage
                      = PagesOf(chats[currentPopupChatId].count))
          => /\ currentPopupPage' = currentPopupPage
             /\ popupShown'
             /\ popupDom'.indicator[1] = currentPopupPage]_vars
    /\ [][(/\ PopupShowsFavorites
           /\ currentPopupPage > 1
           /\ currentPopupPage = PagesOf(chats[currentPopupChatId].count)
           /\ Len(popupDom.rows) = 1
           /\ popupDom.rows[1].favId \notin UsedUuids(chats'))
          => /\ popupShown'
             /\ currentPopupChatId' = currentPopupChatId
             /\ currentPopupPage' = currentPopupPage - 1
             /\ Len(popupDom'.rows) = itemsPerPagePopup]_vars

\* "next" was clicked on the third and last page of 23 favorites, and the
\* popup is on that page
C15_Witness ==
    /\ last.op = "handlePopupPagination"
    /\ last.arg = <<"next", 3>>
    /\ PopupShowsFavorites
    /\ chats[currentPopupChatId].count = 23
    /\ currentPopupPage = 3

\* where the store keeps the favorite favId of conversation c
StoreIndex(cs, c, favId) ==
    CHOOSE i \in 1..Len(cs[c].items) : cs[c].items[i].id = favId

\* ------------------------------------------------------------------------
\* C16: the rows of the popup are the favorites of the conversation in
\* ascending order of their timestamps, whatever the order they were
\* added in, and those with the same timestamp in the order the store
\* keeps them in; opening the popup, paging and rendering leave the stored
\* items and their order as they were.
\* ------------------------------------------------------------------------
C16_RowsAscendingStable ==
    /\ [](PopupShowsFavorites
            => LET c == currentPopupChatId
                   rows == popupDom.rows
                   At(k) == StoreIndex(chats, c, rows[k].favId)
                   Stamp(k) == chats[c].items[At(k)].timestamp
               IN /\ \A k \in 1..Len(rows) :
                        /\ rows[k].favId \in UsedUuids(chats)
                        /\ rows[k].timestamp = Stamp(k)
                  /\ \A k \in 1..(Len(rows) - 1) :
                        \/ Stamp(k) < Stamp(k + 1)
                        \/ Stamp(k) = Stamp(k + 1) /\ At(k) < At(k + 1)
                  /\ RowsArePositions(rows, chats, c,
                        (currentPopupPage - 1) * 10,
                        IF currentPopupPage * 10 < chats[c].count
                        THEN currentPopupPage * 10 ELSE chats[c].count))
    /\ [][last'.op \in {"openFavoritesPopup", "updateFavoritesPopup",
                        "handlePopupPagination"}
            => chats' = chats /\ chatsKeys' = chatsKeys]_vars

\* the popup was opened for favorites added in the order of the messages
\* 1, 2, ...: its first rows are those of the messages 10 and 20, which
\* have the earliest timestamp, 10 before 20, and the store still begins
\* with the favorite of message 1
C16_Witness ==
    /\ last.op = "openFavoritesPopup"
    /\ PopupShowsFavorites
    /\ Len(popupDom.rows) = itemsPerPagePopup
    /\ popupDom.rows[1].msgId = "10"
    /\ popupDom.rows[2].msgId = "20"
    /\ popupDom.rows[1].timestamp = popupDom.rows[2].timestamp
    /\ chats[currentPopupChatId].items[1].messageId = "1"
    /\ chats[currentPopupChatId].items[1].timestamp
          > popupDom.rows[1].timestamp

\* the ids of the live messages, as strings
LiveMessageIds == {ToStr(context.chat[i].id) : i \in 1..Len(context.chat)}

\* ------------------------------------------------------------------------
\* C17: the popup is bound to the conversation the host shows, and the
\* favorites flagged when the prompt opened are those flagged now (the
\* live conversation did not change meanwhile). Then a confirmed clear
\* removes exactly the favorites whose messageId is the string form of no
\* live message id, keeps the others in their order, lowers count by the
\* number flagged, and reports that number.
\* ------------------------------------------------------------------------
C17_ClearInvalidRemovesFlagged ==
    [][(/\ last'.op = "handleClearInvalidFavorites:confirm"
        /\ pending.kind = "clear"
        /\ pending.chatId = currentChatId
        /\ currentPopupChatId = currentChatId
        /\ currentChatId \in DOMAIN chats
        /\ pending.invalidFavIds
             = InvalidFavIds(chats[currentChatId].items))
         => LET c == currentChatId
                kept == SelectSeq(chats[c].items, LAMBDA item :
                           item.messageId \in LiveMessageIds)
                flagged == Len(chats[c].items) - Len(kept)
            IN /\ flagged >= 1
               /\ ItemsOf(chats', c) = kept
               /\ CountOf(chats', c) = chats[c].count - flagged
               /\ (c \in DOMAIN chats') = (kept # <<>>)
               /\ \A d \in DOMAIN chats \ {c} :
                     d \in DOMAIN chats' /\ chats'[d] = chats[d]
               /\ last'.ret = Num(flagged)
               /\ last'.alerts = 1
               /\ persisted' = chats']_vars

\* a confirmed clear removed one favorite and kept the other one of the
\* conversation
C17_Witness ==
    /\ last.op = "handleClearInvalidFavorites:confirm"
    /\ last.ret = Num(1)
    /\ currentPopupChatId = currentChatId
    /\ CountOf(chats, currentChatId) = 1
    /\ chats[currentChatId].items[1].messageId \in LiveMessageIds

\* the items of conversation c with the note of favorite favId set
WithNote(items, favId, note) ==
    [i \in 1..Len(items) |->
       IF items[i].id = favId THEN [items[i] EXCEPT !.note = note]
       ELSE items[i]]

\* ------------------------------------------------------------------------
\* C18: when the note prompt of a favorite the store still holds resolves
\* to a text r, also the empty one, the note of that favorite becomes
\* trim(r), nothing else in the store changes and a save is requested;
\* when the prompt is cancelled or declined the store stays as it was and
\* no save is requested. The note of every stored item is a string in
\* every state.
\* ------------------------------------------------------------------------
C18_NoteEditTrimsOrKeeps ==
    /\ [](\A c \in DOMAIN chats : \A i \in 1..Len(chats[c].items) :
             chats[c].items[i].note \in STRING)
    /\ [][(/\ last'.op \in {"handleEditNote:commit", "handleEditNote:cancel"}
           /\ pending.kind = "note"
           /\ FindFavorite(chats, pending.chatId, pending.favId)
                 # Undefined)
          => LET r == last'.arg
                 c == pending.chatId
             IN IF r \notin {Null, Bool(FALSE)}
                THEN /\ r.t = "string"
                     /\ chats' = [chats EXCEPT ![c].items =
                                    WithNote(@, pending.favId, trim(r.s))]
                     /\ FindFavorite(chats', c, pending.favId).note
                           = trim(r.s)
                     /\ last'.saves = 1
                     /\ persisted' = chats'
                ELSE /\ chats' = chats
                     /\ persisted' = persisted
                     /\ last'.saves = 0]_vars

\* the prompt for the note of the only favorite resolved to " x ": the
\* note is "x" and the settings were saved with it
C18_Witness ==
    /\ last.op = "handleEditNote:commit"
    /\ last.arg = Str(" x ")
    /\ last.saves = 1
    /\ persisted = chats
    /\ \E c \in DOMAIN chats :
          /\ DOMAIN chats = {c}
          /\ Len(chats[c].items) = 1
          /\ chats[c].items[1].note = "x"

\* ------------------------------------------------------------------------
\* C19: when the confirmation of a delete or of a clear is cancelled or
\* declined, the settings root, currentPopupChatId, currentPopupPage, the
\* state of every icon and the overview stay as they were, and no save is
\* requested.
\* ------------------------------------------------------------------------
C19_DeclinedConfirmationChangesNothing ==
    [][(/\ last'.op \in {"handleDeleteFavoriteFromPopup:cancel",
                         "handleClearInvalidFavorites:cancel"}
        /\ pending.kind \in {"delete", "clear"}
        /\ last'.arg \in {Bool(FALSE), Null})
         => /\ chats' = chats
            /\ chatsKeys' = chatsKeys
            /\ currentPopupChatId' = currentPopupChatId
            /\ currentPopupPage' = currentPopupPage
            /\ chatDom' = chatDom
            /\ settingsArea' = settingsArea
            /\ currentPluginPagePage' = currentPluginPagePage
            /\ persisted' = persisted
            /\ last'.saves = 0]_vars

\* the confirmation of a delete was declined while the popup showed the
\* favorite and its message showed the solid star
C19_Witness ==
    /\ last.op = "handleDeleteFavoriteFromPopup:cancel"
    /\ last.arg = Bool(FALSE)
    /\ last.saves = 0
    /\ PopupShowsFavorites
    /\ Len(popupDom.rows) >= 1
    /\ \E e \in 1..Len(chatDom) : chatDom[e].favorited

\* what an entry records about its conversation
EntryMeta(chatData) ==
    [name |-> chatData.name, type |-> chatData.type,
     characterId |-> chatData.characterId, groupId |-> chatData.groupId]

\* ------------------------------------------------------------------------
\* C20: the name, type, characterId and groupId of an entry change only in
\* a step that appends a new item to the entry: no other step, and in
\* particular no addFavorite for a message that is favorited already, no
\* removal and no note edit, changes them.
\* ------------------------------------------------------------------------
C20_MetaChangesOnlyOnAppend ==
    [][\A c \in DOMAIN chats \cap DOMAIN chats' :
         EntryMeta(chats'[c]) # EntryMeta(chats[c])
         => /\ Len(chats'[c].items) = Len(chats[c].items) + 1
            /\ SubSeq(chats'[c].items, 1, Len(chats[c].items))
                  = chats[c].items]_vars

\* ------------------------------------------------------------------------
\* C21: every step that changes the settings root requests a save before
\* it ends, so in every state the settings root in memory is the one of
\* the latest save request.
\* ------------------------------------------------------------------------
C21_MemoryEqualsLastSaveRequest ==
    /\ [](persisted = chats)
    /\ [][chats' # chats => last'.saves >= 1]_vars

\* an entry has exactly one of characterId and groupId, the one that goes
\* with its type
OneOwnerId(chatData) ==
    /\ chatData.type \in {"private", "group"}
    /\ (chatData.type = "private")
          => /\ chatData.characterId # Undefined
             /\ chatData.groupId = Undefined
    /\ (chatData.type = "group")
          => /\ chatData.groupId # Undefined
             /\ chatData.characterId = Undefined

\* ------------------------------------------------------------------------
\* C22: each entry has exactly one of characterId and groupId, characterId
\* when its type is private and groupId when its type is group, also
\* after addFavorite has appended an item to an entry that was stored with
\* the other type: every entry is so after every addFavorite that appends.
\* ------------------------------------------------------------------------
C22_OneOwnerIdMatchingType ==
    [][(last'.op = "addFavorite" /\ last'.saves = 1)
         => \A c \in DOMAIN chats' : OneOwnerId(chats'[c])]_vars

\* the store holds a favorite of conversation c for the message whose id
\* reads mesid
HasFavoriteOf(cs, c, mesid) ==
    \E i \in 1..Len(ItemsOf(cs, c)) : ItemsOf(cs, c)[i].messageId = mesid

\* ------------------------------------------------------------------------
\* C23: after injectOrUpdateFavoriteIcons has run while a conversation
\* resolves, every message block with a button region holds exactly one
\* icon, and the icon of every such block with a message id shows
\* "favorited" exactly when the store holds a favorite of the conversation
\* for that id. A second run right after the first changes nothing, and no
\* run changes the settings root or requests a save.
\* ------------------------------------------------------------------------
C23_IconsInjectedOnceAndSynced ==
    [][(last'.op = "injectOrUpdateFavoriteIcons")
         => /\ chats' = chats
            /\ chatsKeys' = chatsKeys
            /\ persisted' = persisted
            /\ last'.saves = 0
            /\ Len(chatDom') = Len(chatDom)
            /\ (getCurrentChatInfo # NoChatInfo)
                  => \A e \in 1..Len(chatDom') :
                        chatDom'[e].extraMesButtons
                        => /\ chatDom'[e].icons = 1
                           /\ chatDom'[e].mesid = chatDom[e].mesid
                           /\ (chatDom'[e].mesid # "")
                                 => (chatDom'[e].favorited
                                       <=> HasFavoriteOf(chats, currentChatId,
                                                         chatDom'[e].mesid))
            /\ (last.op = "injectOrUpdateFavoriteIcons")
                  => chatDom' = chatDom]_vars

\* the icons were synced for a conversation with a favorited and an
\* unfavorited message: one solid star, one hollow star
C23_Witness ==
    /\ last.op = "injectOrUpdateFavoriteIcons"
    /\ getCurrentChatInfo # NoChatInfo
    /\ \E e \in 1..Len(chatDom) :
          /\ chatDom[e].icons = 1 /\ chatDom[e].favorited
          /\ HasFavoriteOf(chats, currentChatId, chatDom[e].mesid)
    /\ \E e \in 1..Len(chatDom) :
          /\ chatDom[e].icons = 1 /\ ~chatDom[e].favorited
          /\ chatDom[e].mesid # ""

\* ------------------------------------------------------------------------
\* C24: getCurrentChatInfo returns nothing when the host has no current
\* conversation id or has neither an active character nor an active
\* group. Otherwise it returns type group with the groupId when a group is
\* active, and type private with the characterId when a character and no
\* group is active, whatever the id of the character is, 0 included.
\* ------------------------------------------------------------------------
C24_ChatInfoForEveryContext ==
    LET info == getCurrentChatInfo
        hasChat == ~FalsyId(currentChatId)
        hasCharacter == context.characterId \notin {Undefined, Null}
        hasGroup == context.groupId \notin {Undefined, Null}
    IN /\ (~hasChat \/ (~hasCharacter /\ ~hasGroup)) => info = NoChatInfo
       /\ (hasChat /\ hasGroup)
             => /\ info # NoChatInfo
                /\ info.chatId = currentChatId
                /\ info.type = "group"
                /\ info.groupId = context.groupId
       /\ (hasChat /\ hasCharacter /\ ~hasGroup)
             => /\ info # NoChatInfo
                /\ info.chatId = currentChatId
                /\ info.type = "private"
                /\ info.characterId = context.characterId

\* ------------------------------------------------------------------------
\* C25: every add and every removal renders the overview before it ends,
\* so in every state in which the mount point of the overview exists each
\* conversation row it shows is that of a conversation in the store and
\* shows the count the store has for it.
\* ------------------------------------------------------------------------
C25_OverviewCountsCurrent ==
    settingsArea.exists
    => \A j \in 1..Len(settingsArea.entries) :
          ~settingsArea.entries[j].isGroupTitle
          => /\ settingsArea.entries[j].chatId \in DOMAIN chats
             /\ settingsArea.entries[j].count
                   = chats[settingsArea.entries[j].chatId].count

\* a favorite was deleted from the popup and the overview shows the
\* conversation with the one favorite that is left
C25_Witness ==
    /\ last.op = "handleDeleteFavoriteFromPopup:confirm"
    /\ last.saves = 1
    /\ settingsArea.exists
    /\ \E j \in 1..Len(settingsArea.entries) :
          /\ ~settingsArea.entries[j].isGroupTitle
          /\ settingsArea.entries[j].count = 1
          /\ CountOf(chats, settingsArea.entries[j].chatId) = 1

\* the label of the group renderPluginPage puts conversation chatId in
GroupLabel(chatId) ==
    LET rows == PluginPageRows(chats, chatsKeys)
    IN rows[CHOOSE i \in 1..Len(rows) : rows[i].chatId = chatId].groupKey

\* stream is an overview of the store: titles in ascending order of the
\* labels, each followed by the rows of its conversations in ascending
\* order of the display names, each conversation in one row
IsOverviewStream(stream) ==
    LET n == Len(stream)
        TitleOf(i) == stream[CHOOSE t \in 1..i :
                               /\ stream[t].isGroupTitle
                               /\ \A u \in (t + 1)..i :
                                     ~stream[u].isGroupTitle].title
    IN /\ n > 0 => stream[1].isGroupTitle
       /\ \A i, j \in 1..n :
             (i < j /\ stream[i].isGroupTitle /\ stream[j].isGroupTitle)
                => LocaleRank(stream[i].title) < LocaleRank(stream[j].title)
       /\ \A i \in 1..n :
             stream[i].isGroupTitle
                => (i < n /\ ~stream[i + 1].isGroupTitle)
       /\ \A i \in 2..n :
             ~stream[i].isGroupTitle
                => /\ GroupLabel(stream[i].chatId) = TitleOf(i)
                   /\ stream[i].displayName
                        = (IF chats[stream[i].chatId].name # ""
                           THEN chats[stream[i].chatId].name
                           ELSE ChatLabel(stream[i].chatId))
                   /\ stream[i].count = chats[stream[i].chatId].count
                   /\ ~stream[i - 1].isGroupTitle
                        => LocaleRank(stream[i - 1].displayName)
                             <= LocaleRank(stream[i].displayName)
       /\ \A k \in 1..Len(chatsKeys) :
             Cardinality({i \in 1..n : /\ ~stream[i].isGroupTitle
                                       /\ stream[i].chatId = chatsKeys[k]})
               = 1
       /\ n = Cardinality({GroupLabel(chatsKeys[k]) :
                             k \in 1..Len(chatsKeys)}) + Len(chatsKeys)

\* the pages of n entries of the overview
OverviewPagesOf(n) == (n + 19) \div 20

\* C26: the entries of the overview are the titles of the groups in
\* ascending order of their labels, each followed by the rows of the
\* group's conversations in ascending order of their display names, each
\* conversation of the store in exactly one row; the page shown is a
\* window of 20 of these entries, titles counted, the k-th for page k,
\* and the pages are ceil((groups + conversations) / 20).
C26_OverviewStreamInWindowsOfTwenty ==
    /\ [](settingsArea.exists /\ ~settingsArea.emptyState
           => \E stream \in {PluginPageEntries(chats, chatsKeys)} :
                LET k == settingsArea.indicator[1]
                    pages == OverviewPagesOf(Cardinality({GroupLabel(chatsKeys[i]) :
                                   i \in 1..Len(chatsKeys)}) + Len(chatsKeys))
                IN /\ IsOverviewStream(stream)
                   /\ settingsArea.indicator[2] = pages
                   /\ k \in 1..pages
                   /\ k = currentPluginPagePage
                   /\ settingsArea.entries
                        = SubSeq(stream, (k - 1) * 20 + 1,
                                 Min(k * 20, Len(stream))))
    /\ [][(last'.op = "renderPluginPage"
            /\ last'.arg \in 1..settingsArea.indicator[2])
           => settingsArea'.indicator[1] = last'.arg]_vars

\* the second page of an overview of seven groups of two conversations
\* is shown, which begins with a row of the seventh group
C26_Witness ==
    /\ settingsArea.exists /\ ~settingsArea.emptyState
    /\ settingsArea.indicator = <<2, 2>>
    /\ Len(chatsKeys) = 14
    /\ Len(settingsArea.entries) = 1
    /\ ~settingsArea.entries[1].isGroupTitle
    /\ last.op = "handlePluginPagePagination"
    /\ last.arg = <<"next", 1>>

\* C27: handlePluginPagePagination bounds "next" by the pages
\* renderPluginPage has, so a click on "next" on a page before the last
\* page rendered shows the page after it.
C27_NextReachesEveryRenderedPage ==
    [][(/\ last'.op = "handlePluginPagePagination"
        /\ last'.arg[1] = "next"
        /\ last'.arg[2] < settingsArea.indicator[2])
         => /\ currentPluginPagePage' = last'.arg[2] + 1
            /\ settingsArea'.indicator[1] = last'.arg[2] + 1]_vars

\* C28: a click on "Clear Invalid" removes nothing, saves nothing and
\* opens no prompt when the conversation the popup is bound to is not the
\* one the host shows, or has no favorites, or has no favorite whose
\* message is missing from the live conversation.
C28_ClearInvalidGivesUpUnchanged ==
    [][(/\ last'.op = "handleClearInvalidFavorites"
        /\ \/ FalsyId(currentPopupChatId)
           \/ currentChatId # currentPopupChatId
           \/ currentPopupChatId \notin DOMAIN chats
           \/ \A i \in 1..Len(chats[currentPopupChatId].items) :
                 chats[currentPopupChatId].items[i].messageId
                    \in LiveMessageIds)
         => /\ chats' = chats /\ chatsKeys' = chatsKeys
            /\ persisted' = persisted
            /\ pending' = NoPrompt
            /\ last'.saves = 0
            /\ last'.alerts = 1]_vars

\* "Clear Invalid" was clicked in a popup bound to a conversation with a
\* favorite while the host showed another conversation in which that
\* favorite's message does not exist
C28_Witness ==
    /\ last.op = "handleClearInvalidFavorites"
    /\ pending = NoPrompt
    /\ ~FalsyId(currentPopupChatId)
    /\ currentChatId # currentPopupChatId
    /\ currentPopupChatId \in DOMAIN chats
    /\ \E i \in 1..Len(chats[currentPopupChatId].items) :
          chats[currentPopupChatId].items[i].messageId \notin LiveMessageIds

\* C29: whatever the host did while the prompt of "Clear Invalid" was
\* open, a confirmation removes a favorite only if, when it is removed,
\* the conversation the clear was started for is the one the host shows
\* and the favorite's message is missing from the live conversation.
C29_ClearRemovesOnlyMissingOfActive ==
    [][(last'.op = "handleClearInvalidFavorites:confirm")
         => \A c \in DOMAIN chats :
              \A i \in 1..Len(chats[c].items) :
                 (\A j \in 1..Len(ItemsOf(chats', c)) :
                     ItemsOf(chats', c)[j].id # chats[c].items[i].id)
                   => /\ c = pending.chatId
                      /\ c = currentChatId
                      /\ chats[c].items[i].messageId
                           \notin LiveMessageIds]_vars

\* C30: every favorite icon rendered for the conversation the host shows
\* is solid exactly when the store holds a favorite of that conversation
\* for the icon's message, after any sequence of toggles, popup deletes
\* and clear-invalid runs, icons being injected after the host renders a
\* conversation.
C30_IconsAgreeWithStore ==
    \A e \in 1..Len(chatDom) :
       chatDom[e].icons >= 1
         => (chatDom[e].favorited
               <=> HasFavoriteOf(chats, currentChatId, chatDom[e].mesid))

\* C31: when the favorite a note prompt was opened for has left the store
\* by the time the prompt is committed, the commit leaves the store as it
\* is: the favorite does not come back, no conversation entry comes back,
\* items and counts stay. When the favorite a delete prompt was opened
\* for has left the store by the time the prompt is confirmed, the
\* confirmation leaves the store as it is, removeFavoriteById returns
\* false and nothing is saved.
C31_AnswerAfterRemovalChangesNothing ==
    /\ [][(/\ last'.op = "handleEditNote:commit"
           /\ pending.kind = "note"
           /\ FindFavorite(chats, pending.chatId, pending.favId)
                 = Undefined)
          => /\ chats' = chats
             /\ chatsKeys' = chatsKeys
             /\ persisted' = chats]_vars
    /\ [][(/\ last'.op = "handleDeleteFavoriteFromPopup:confirm"
           /\ pending.kind = "delete"
           /\ FindFavorite(chats, pending.chatId, pending.favId)
                 = Undefined)
          => /\ chats' = chats
             /\ chatsKeys' = chatsKeys
             /\ persisted' = persisted
             /\ chatDom' = chatDom
             /\ last'.ret = Bool(FALSE)
             /\ last'.saves = 0]_vars

\* a note prompt was committed with a text for a favorite that had been
\* the only one of its conversation and was removed while the prompt was
\* open: the store holds no entry of the conversation
C31_Witness ==
    /\ last.op = "handleEditNote:commit"
    /\ last.arg = Str(" x ")
    /\ ~FalsyId(currentPopupChatId)
    /\ currentPopupChatId \notin DOMAIN chats
    /\ chatsKeys = <<>>
    /\ persisted = chats

====
